---------------------------- MODULE Spec2Model ----------------------------
(***************************************************************************)
(* shorts-cutter: the bounded worker pool (src/src/worker.rs), the FFmpeg  *)
(* invocation (src/src/ffmpeg.rs), the result aggregation and exit code    *)
(* (src/src/logger.rs, src/src/main.rs).                                   *)
(***************************************************************************)
EXTENDS Integers, Sequences, FiniteSets, Bags, TLC

(***************************************************************************)
(* Bounds of the model.                                                    *)
(***************************************************************************)
\* longest task list handed to execute_tasks
MaxTasks == 2
\* largest permit count a pool is constructed with in Spec
MaxWorkers == 2
\* largest value of a ProcessingSummary counter in SpecSummary
MaxCount == 3
\* most metadata lines in the middle of a stderr text in SpecExtract
MaxFill == 8
\* most lines of any kind at the end of a stderr text in SpecExtract
MaxTail == 3
\* largest total_tasks of a ProgressMonitor in SpecProgress
MaxTotal == 3
\* most calls of increment_completed in SpecProgress
MaxCalls == 3
\* largest start_time.elapsed(), in nanoseconds, in SpecProgress
MaxElapsed == 3
\* most calls of progress_percentage and estimated_time_remaining together
MaxAsked == 1
\* most entries of the input directory in SpecFind
MaxEntries == 3

(***************************************************************************)
(* Program constants (src/src/config.rs).                                  *)
(***************************************************************************)
SUCCESS == 0
CRITICAL_ERROR == 1
PARTIAL_SUCCESS == 2
MAX_THREADS == 32
FFMPEG_TIMEOUT == 10 * 60
OUTPUT_SUFFIX == "-short"
DEFAULT_INPUT_EXTENSIONS == {"mp4"}

(***************************************************************************)
(* Paths.  A path is its parent directory, file stem and extension; ""     *)
(* stands for an absent component (Path::extension() = None).              *)
(***************************************************************************)
Path(d, s, e) == [dir |-> d, stem |-> s, ext |-> e]

\* Path::display
display(p) ==
    IF p.stem = "" THEN p.dir
    ELSE p.dir \o "/" \o p.stem \o (IF p.ext = "" THEN "" ELSE "." \o p.ext)

\* str::to_lowercase on the extensions of the model
to_lowercase(s) ==
    CASE s = "MP4" -> "mp4"
      [] s = "Mp4" -> "mp4"
      [] s = "TXT" -> "txt"
      [] OTHER -> s

InputDir == "/in"
OutputDir == "/out"

\* the input files of the model, in the order PathBuf's Ord gives them
PathA == Path(InputDir, "a", "mp4")
PathB == Path(InputDir, "b", "MP4")
PathC == Path(InputDir, "c", "txt")
PathD == Path(InputDir, "d", "mp4")
\* a file of a subdirectory of the input directory
PathE == Path(InputDir \o "/sub", "a", "mp4")
SortedPaths == <<PathA, PathB, PathC, PathD, PathE>>

\* utils::is_supported_video_file
is_supported_video_file(path) ==
    IF path.ext # ""
    THEN to_lowercase(path.ext) \in DEFAULT_INPUT_EXTENSIONS
    ELSE FALSE

\* mutant: the output keeps the file name of the input
generate_output_path_without_suffix(input_path, output_dir) ==
    LET input_filename == IF input_path.stem # "" THEN input_path.stem ELSE "unknown"
        input_extension == IF input_path.ext # "" THEN input_path.ext ELSE "mp4"
    IN  Path(output_dir, input_filename, input_extension)

\* utils::generate_output_path
generate_output_path(input_path, output_dir) ==
    LET input_filename == IF input_path.stem # "" THEN input_path.stem ELSE "unknown"
        input_extension == IF input_path.ext # "" THEN input_path.ext ELSE "mp4"
    IN  Path(output_dir, input_filename \o OUTPUT_SUFFIX, input_extension)

\* FileTask::new
FileTask(input, output) == [input |-> input, output |-> output]

RECURSIVE MapTasks(_, _)
MapTasks(input_files, output_dir) ==
    IF input_files = <<>> THEN <<>>
    ELSE <<FileTask(Head(input_files),
                    generate_output_path(Head(input_files), output_dir))>>
         \o MapTasks(Tail(input_files), output_dir)

\* utils::create_file_tasks
create_file_tasks(input_files, output_dir) == MapTasks(input_files, output_dir)


(***************************************************************************)
(* Errors (src/src/error.rs).  An error value is a record; Display gives   *)
(* the text of its #[error(...)] attribute.                                *)
(***************************************************************************)
NoPath == Path("", "", "")

FileSystemError(class, path) == [class |-> class, path |-> path]

\* FileSystemError: Display
FileSystemError_display(e) ==
    CASE e.class = "CannotReadDirectory" -> "Cannot read directory: " \o display(e.path)
      [] e.class = "CannotAccessFile" -> "Cannot access file: " \o display(e.path)
      [] e.class = "FileNotFound" -> "File not found: " \o display(e.path)
      [] e.class = "PermissionDenied" -> "Permission denied for path: " \o display(e.path)
      [] OTHER -> "Disk full or insufficient space for output"

FfmpegError(class, code, stderr, command, seconds, path) ==
    [class |-> class, code |-> code, stderr |-> stderr, command |-> command,
     seconds |-> seconds, path |-> path]

\* FfmpegError::execution_failed
execution_failed(code, stderr, command) ==
    FfmpegError("ExecutionFailed", code, stderr, command, 0, NoPath)

\* FfmpegError::timeout
timeout_error(seconds) == FfmpegError("Timeout", 0, <<>>, "", seconds, NoPath)

\* FfmpegError::invalid_format
invalid_format(path) == FfmpegError("InvalidInputFormat", 0, <<>>, "", 0, path)

\* FfmpegError::CannotSpawnProcess
CannotSpawnProcess == FfmpegError("CannotSpawnProcess", 0, <<>>, "", 0, NoPath)

\* FfmpegError: Display
FfmpegError_display(e) ==
    CASE e.class = "ExecutionFailed" ->
             "FFmpeg execution failed with exit code " \o ToString(e.code)
      [] e.class = "Timeout" ->
             "FFmpeg process timeout after " \o ToString(e.seconds) \o " seconds"
      [] e.class = "InvalidInputFormat" ->
             "Invalid input file format: " \o display(e.path)
      [] e.class = "CannotSpawnProcess" -> "Cannot spawn FFmpeg process"
      [] OTHER -> "FFmpeg stderr parsing failed"

\* Result<(), E>
OkUnit == [ok |-> TRUE]
ErrOf(e) == [ok |-> FALSE, err |-> e]

(***************************************************************************)
(* What the file system answers when a unit of work looks at it.  The      *)
(* file system is outside the program: every look is an input.             *)
(***************************************************************************)
\* a path seen as an input file
FileStatuses == {"file", "missing", "dir", "unreadable"}
\* a path seen as an output directory
DirStatuses == {"writable", "missing", "notdir", "readonly"}

\* utils::validate_input_file
utils_validate_input_file(path, st) ==
    IF st = "missing" THEN ErrOf(FileSystemError("FileNotFound", path))
    ELSE IF st = "dir" THEN ErrOf(FileSystemError("CannotAccessFile", path))
    ELSE IF st = "unreadable" THEN ErrOf(FileSystemError("PermissionDenied", path))
    ELSE OkUnit

\* utils::validate_output_directory
validate_output_directory(path, st) ==
    IF st = "missing" THEN ErrOf(FileSystemError("FileNotFound", path))
    ELSE IF st = "notdir" THEN ErrOf(FileSystemError("CannotAccessFile", path))
    ELSE IF st = "readonly" THEN ErrOf(FileSystemError("PermissionDenied", path))
    ELSE OkUnit

\* Path::parent of a file path
parent(path) == Path(path.dir, "", "")

\* mutant: the output is not compared with the input
FileTask_validate_allows_same(task, in_st, out_st) ==
    LET r1 == utils_validate_input_file(task.input, in_st)
        r2 == validate_output_directory(parent(task.output), out_st)
    IN  IF ~r1.ok THEN r1
        ELSE IF ~r2.ok THEN r2
        ELSE OkUnit

\* FileTask::validate
FileTask_validate(task, in_st, out_st) ==
    LET r1 == utils_validate_input_file(task.input, in_st)
        r2 == validate_output_directory(parent(task.output), out_st)
    IN  IF ~r1.ok THEN r1
        ELSE IF ~r2.ok THEN r2
        ELSE IF task.input = task.output
             THEN ErrOf(FileSystemError("CannotAccessFile", task.output))
        ELSE OkUnit

\* ffmpeg::validate_input_file
ffmpeg_validate_input_file(path, st) ==
    IF st = "missing" THEN ErrOf(invalid_format(path))
    ELSE IF st = "dir" THEN ErrOf(invalid_format(path))
    ELSE IF path.ext # ""
         THEN IF to_lowercase(path.ext) \notin DEFAULT_INPUT_EXTENSIONS
              THEN ErrOf(invalid_format(path))
              ELSE OkUnit
         ELSE ErrOf(invalid_format(path))

(***************************************************************************)
(* The FFmpeg invocation (src/src/ffmpeg.rs).                              *)
(***************************************************************************)
FFMPEG_EXECUTABLE == "ffmpeg"
FFMPEG_FILTER_COMPLEX == "[0:v]scale=2276:1280,boxblur=4[bg];[1:v]scale=720:-1[fg];[bg][fg]overlay=(W-w)/2:(H-h)/2[tmp];[tmp]crop=720:1280:(2276-720)/2:0[out]"

\* mutant: the overwrite flag is left out
build_ffmpeg_args_without_overwrite(input_path, output_path) ==
    <<"-i", display(input_path), "-i", display(input_path),
      "-filter_complex", FFMPEG_FILTER_COMPLEX,
      "-map", "[out]", "-map", "0:a", display(output_path)>>

\* ffmpeg::build_ffmpeg_args
build_ffmpeg_args(input_path, output_path) ==
    <<"-i", display(input_path), "-i", display(input_path),
      "-filter_complex", FFMPEG_FILTER_COMPLEX,
      "-map", "[out]", "-map", "0:a", "-y", display(output_path)>>

RECURSIVE join(_, _)
\* [String]::join
join(strs, sep) ==
    IF strs = <<>> THEN ""
    ELSE IF Len(strs) = 1 THEN Head(strs)
    ELSE Head(strs) \o sep \o join(Tail(strs), sep)

\* ffmpeg::build_ffmpeg_command_string
build_ffmpeg_command_string(input_path, output_path) ==
    FFMPEG_EXECUTABLE \o " " \o join(build_ffmpeg_args(input_path, output_path), " ")

\* FfmpegCommand::args
FfmpegCommand_args(cmd) == build_ffmpeg_args(cmd.input_path, cmd.output_path)

\* FfmpegCommand::new
FfmpegCommand(input_path, output_path) ==
    [input_path |-> input_path, output_path |-> output_path,
     command_string |-> build_ffmpeg_command_string(input_path, output_path)]

\* what the environment answers to the steps of execute_ffmpeg_command before
\* the wait: does the input exist, does create_dir_all succeed, does spawn
IoAnswers == {"ok", "fail"}

\* how timeout(FFMPEG_TIMEOUT, child.wait_with_output()) ends:
\*   Exited  - Ok(Ok(output)), output.status.code() = Some(code)
\*   Signaled - Ok(Ok(output)), killed by a signal, output.status.code() = None
\*   IoError - Ok(Err(e))
\*   Elapsed - Err(_), the timer fired first
WaitOutcome(tag, code, stderr) == [tag |-> tag, code |-> code, stderr |-> stderr]
\* stderr texts, each the sequence of its lines
StderrTexts == {<<"  Metadata:", "Error: No such file or directory">>}
ExitCodes == {0, 1}
ProcessEnds ==
    {WaitOutcome("Exited", c, IF c = 0 THEN <<>> ELSE e) : c \in ExitCodes, e \in StderrTexts}
    \cup {WaitOutcome("Signaled", 0, e) : e \in StderrTexts}
    \cup {WaitOutcome("IoError", 0, <<>>)}
Elapsed == WaitOutcome("Elapsed", 0, <<>>)

\* mutant: any exit of the process counts as a success
status_success_any_exit(w) == w.tag = "Exited"

\* ExitStatus::success
status_success(w) == w.tag = "Exited" /\ w.code = 0

\* mutant: a status without a code reads as code 0
status_code_or_zero(w, default) == IF w.tag = "Exited" THEN w.code ELSE 0

\* ExitStatus::code().unwrap_or(default)
status_code_or(w, default) == IF w.tag = "Exited" THEN w.code ELSE default

FfmpegExecutionResult(success, exit_code, stderr, command) ==
    [success |-> success, exit_code |-> exit_code, stderr |-> stderr,
     command |-> command]

OkOf(v) == [ok |-> TRUE, val |-> v]

\* execute_ffmpeg_command, up to the spawn: Ok when the child was spawned
execute_prepare(cmd, exists, mkdir, spawn) ==
    IF exists # "ok" THEN ErrOf(invalid_format(cmd.input_path))
    ELSE IF mkdir # "ok" THEN ErrOf(CannotSpawnProcess)
    ELSE IF spawn # "ok" THEN ErrOf(CannotSpawnProcess)
    ELSE OkUnit

\* mutant: the timer firing is reported as a failure to spawn
on_elapsed_as_spawn_error(cmd) == ErrOf(CannotSpawnProcess)

\* the Err(_) arm of the match in execute_ffmpeg_command: the timer fired
on_elapsed(cmd) == ErrOf(timeout_error(FFMPEG_TIMEOUT))

\* execute_ffmpeg_command, the match on the awaited wait
execute_wait(cmd, w) ==
    IF w.tag \in {"Exited", "Signaled"}
    THEN IF status_success(w)
         THEN OkOf(FfmpegExecutionResult(TRUE, status_code_or(w, 0), w.stderr,
                                         cmd.command_string))
         ELSE ErrOf(execution_failed(status_code_or(w, -1), w.stderr,
                                     cmd.command_string))
    ELSE IF w.tag = "IoError" THEN ErrOf(CannotSpawnProcess)
    ELSE on_elapsed(cmd)

(***************************************************************************)
(* Task results (src/src/worker.rs).                                       *)
(***************************************************************************)
NoFfmpegResult == FfmpegExecutionResult(FALSE, 0, <<>>, "")

\* TaskResult::Success
Success(input, output, ffmpeg_result) ==
    [kind |-> "Success", input |-> input, output |-> output, error |-> "",
     ffmpeg_result |-> ffmpeg_result]

\* mutant: the Failure does not carry the input of its task
Failure_without_input(input, error) ==
    [kind |-> "Failure", input |-> NoPath, output |-> NoPath, error |-> error,
     ffmpeg_result |-> NoFfmpegResult]

\* TaskResult::Failure
Failure(input, error) ==
    [kind |-> "Failure", input |-> input, output |-> NoPath, error |-> error,
     ffmpeg_result |-> NoFfmpegResult]

\* TaskResult::is_success
is_success(r) == r.kind = "Success"

\* process_single_file, the two validations: Ok, or Err of the Failure returned
validate_task(task, in_st, out_st, in_st2) ==
    LET v1 == FileTask_validate(task, in_st, out_st)
        v2 == ffmpeg_validate_input_file(task.input, in_st2)
    IN  IF ~v1.ok
        THEN ErrOf(Failure(task.input,
                 "Task validation failed: " \o FileSystemError_display(v1.err)))
        ELSE IF ~v2.ok
        THEN ErrOf(Failure(task.input,
                 "Input file validation failed: " \o FfmpegError_display(v2.err)))
        ELSE OkUnit

\* mutant: the line is searched as it is, without to_lowercase
contains_case_sensitive(line, token) ==
    token \in (CASE line = "Error: No such file or directory" -> {"directory"}
                 [] line = "av_interleaved_write_frame(): Input/output error" ->
                       {"error"}
                 [] line = "x.mp4: No such file or directory" -> {"directory"}
                 [] OTHER -> {})

\* the lower-cased line contains the token (str::to_lowercase, str::contains),
\* on the stderr lines of the model
lower_contains(line, token) ==
    token \in (CASE line = "Error: No such file or directory" ->
                       {"error", "no such file", "directory"}
                 [] line = "av_interleaved_write_frame(): Input/output error" ->
                       {"error"}
                 [] line = "Conversion FAILED!" -> {"failed"}
                 [] line = "Invalid data found when processing input" -> {"invalid"}
                 [] line = "Cannot open output" -> {"cannot"}
                 [] line = "x.mp4: No such file or directory" ->
                       {"no such file", "directory"}
                 [] line = "No such file" -> {"no such file"}
                 [] OTHER -> {})

\* the filter closure of extract_ffmpeg_error
is_error_line(line) ==
    \/ lower_contains(line, "error")
    \/ lower_contains(line, "failed")
    \/ lower_contains(line, "invalid")
    \/ lower_contains(line, "cannot")
    \/ (lower_contains(line, "no such file") /\ lower_contains(line, "directory"))

RECURSIVE rev(_)
\* Iterator::rev
rev(xs) == IF xs = <<>> THEN <<>> ELSE rev(Tail(xs)) \o <<Head(xs)>>

\* Iterator::take
take(xs, n) == SubSeq(xs, 1, IF Len(xs) < n THEN Len(xs) ELSE n)

\* mutant: the matching lines are joined as collected, newest first
extract_lines_newest_first(stderr) ==
    LET error_lines == SelectSeq(take(rev(stderr), 10), is_error_line)
    IN  IF error_lines = <<>>
        THEN rev(take(rev(stderr), 3))
        ELSE error_lines

\* mutant: the fallback takes the first three lines
extract_lines_fallback_from_start(stderr) ==
    LET error_lines == SelectSeq(take(rev(stderr), 10), is_error_line)
    IN  IF error_lines = <<>>
        THEN take(stderr, 3)
        ELSE rev(error_lines)

\* ffmpeg::extract_ffmpeg_error, lines 205-235: the lines that are joined;
\* stderr is its sequence of lines
extract_lines(stderr) ==
    LET error_lines == SelectSeq(take(rev(stderr), 10), is_error_line)
    IN  IF error_lines = <<>>
        THEN rev(take(rev(stderr), 3))
        ELSE rev(error_lines)

\* ffmpeg::extract_ffmpeg_error
extract_ffmpeg_error(stderr) == join(extract_lines(stderr), " | ")

\* FfmpegExecutionResult::error_details; <<>> stands for None
error_details(r) ==
    IF ~r.success /\ r.stderr # <<>>
    THEN <<extract_ffmpeg_error(r.stderr)>>
    ELSE <<>>

\* process_single_file, the match on the result of execute_ffmpeg_command
task_result(task, res) ==
    IF res.ok
    THEN IF res.val.success
         THEN Success(task.input, task.output, res.val)
         ELSE Failure(task.input, "FFmpeg execution failed: " \o
                 (IF error_details(res.val) # <<>> THEN error_details(res.val)[1]
                  ELSE "Unknown error"))
    ELSE Failure(task.input, "FFmpeg error: " \o FfmpegError_display(res.err))

\* ProcessingResults
ProcessingResults(successful, failed, total_duration) ==
    [successful |-> successful, failed |-> failed, total_duration |-> total_duration]

\* ProcessingResults::empty
empty == ProcessingResults(<<>>, <<>>, "ZERO")

\* mutant: the Failure arm of the match pushes nothing
from_task_results_drops_failed(rs, total_duration) ==
    ProcessingResults(SelectSeq(rs, LAMBDA r : r.kind = "Success"), <<>>,
                      total_duration)

\* mutant: a Success is put in front of the successes before it
from_task_results_newest_first(rs, total_duration) ==
    ProcessingResults(rev(SelectSeq(rs, LAMBDA r : r.kind = "Success")),
                      SelectSeq(rs, LAMBDA r : r.kind = "Failure"),
                      total_duration)

\* ProcessingResults::from_task_results
from_task_results(rs, total_duration) ==
    ProcessingResults(SelectSeq(rs, LAMBDA r : r.kind = "Success"),
                      SelectSeq(rs, LAMBDA r : r.kind = "Failure"),
                      total_duration)

\* ProcessingResults::total_count
total_count(p) == Len(p.successful) + Len(p.failed)

\* ProcessingResults::success_count
success_count(p) == Len(p.successful)

\* ProcessingResults::failure_count
failure_count(p) == Len(p.failed)

(***************************************************************************)
(* ProcessingSummary (src/src/logger.rs).                                  *)
(***************************************************************************)
\* ProcessingSummary::new
ProcessingSummary_new ==
    [total_files |-> 0, successful |-> 0, failed |-> 0, total_duration |-> "ZERO",
     successful_files |-> <<>>, failed_files |-> <<>>]

\* ProcessingSummary::add_success
add_success(s, input, output, duration) ==
    [s EXCEPT !.successful = @ + 1,
              !.successful_files = Append(@, <<input, output, duration>>)]

\* mutant: the failure is counted and its file is not listed
add_failure_counts_only(s, input, error_message) ==
    [s EXCEPT !.failed = @ + 1]

\* ProcessingSummary::add_failure
add_failure(s, input, error_message) ==
    [s EXCEPT !.failed = @ + 1,
              !.failed_files = Append(@, <<input, error_message>>)]

\* mutant: total_files is left as it was
set_total_duration_only(s, duration) ==
    [s EXCEPT !.total_duration = duration]

\* ProcessingSummary::set_total_duration
set_total_duration(s, duration) ==
    [s EXCEPT !.total_duration = duration,
              !.total_files = s.successful + s.failed]

\* mutant: any failure is a critical error
exit_code_any_failure_is_critical(s) ==
    IF s.failed > 0 \/ s.successful = 0 THEN CRITICAL_ERROR ELSE SUCCESS

\* ProcessingSummary::exit_code: the match on (successful, failed), arm by arm
exit_code(s) ==
    IF s.successful = 0 /\ s.failed = 0 THEN CRITICAL_ERROR
    ELSE IF s.failed = 0 THEN SUCCESS
    ELSE IF s.successful = 0 THEN CRITICAL_ERROR
    ELSE PARTIAL_SUCCESS

RECURSIVE add_successes(_, _)
\* to_processing_summary, the loop over self.successful
add_successes(s, rs) ==
    IF rs = <<>> THEN s
    ELSE add_successes(
             IF Head(rs).kind = "Success"
             THEN add_success(s, Head(rs).input, Head(rs).output, "d")
             ELSE s,
             Tail(rs))

RECURSIVE add_failures(_, _)
\* to_processing_summary, the loop over self.failed
add_failures(s, rs) ==
    IF rs = <<>> THEN s
    ELSE add_failures(
             IF Head(rs).kind = "Failure"
             THEN add_failure(s, Head(rs).input, Head(rs).error)
             ELSE s,
             Tail(rs))

\* mutant: the failed results are not added to the summary
to_processing_summary_without_failures(p) ==
    set_total_duration(add_successes(ProcessingSummary_new, p.successful),
                       p.total_duration)

\* ProcessingResults::to_processing_summary
to_processing_summary(p) ==
    set_total_duration(
        add_failures(add_successes(ProcessingSummary_new, p.successful), p.failed),
        p.total_duration)

(***************************************************************************)
(* State.                                                                  *)
(***************************************************************************)
VARIABLES
    max_workers,  \* WorkerPool.max_workers
    permits,      \* the permits available in WorkerPool.semaphore
    tasks,        \* the Vec<FileTask> handed to execute_tasks
    pc_main,      \* where execute_tasks is
    cursor,       \* the index of the for loop execute_tasks is in
    tx,           \* the live senders of the channel: 0 is tx, i the clone of unit i
    chan,         \* the results sent and not yet received
    results,      \* the Vec<TaskResult> execute_tasks collects
    ret,          \* what execute_tasks returned
    pc,           \* where each spawned unit of work is
    permit,       \* whether unit i holds its _permit
    local,        \* the result unit i computed and has not yet sent
    child,        \* the external process of unit i
    obs,          \* what the environment answered to unit i (history)
    send_failed,  \* the units whose tx.send returned Err (error! log)
    run_pc,       \* where main/run is
    threads,      \* ValidatedArgs.threads
    summary,      \* a ProcessingSummary
    exit,         \* the code main gave to process::exit; NoExit before
    stderr_lines, \* the text handed to extract_ffmpeg_error, as its lines
    kept,         \* the lines extract_ffmpeg_error joins
    diagnostic,   \* the String extract_ffmpeg_error returned
    spawn_calls,  \* the argument vectors of the Command::spawn calls of unit i
    monitor,      \* a ProgressMonitor
    replies,      \* what the calls on the ProgressMonitor returned, in order
    listing,      \* what read_dir gives for the directory handed to find_video_files
    find_result   \* what find_video_files returned

vars == <<max_workers, permits, tasks, pc_main, cursor, tx, chan, results, ret,
          pc, permit, local, child, obs, send_failed, run_pc, threads, summary,
          exit, stderr_lines, kept, diagnostic, spawn_calls, monitor, replies,
          listing, find_result>>

\* a ProgressMonitor on its own and the answers of its methods
progress_vars == <<monitor, replies>>

\* ProgressMonitor::new; elapsed is start_time.elapsed()
ProgressMonitor_new(total_tasks) ==
    [total_tasks |-> total_tasks, completed_tasks |-> 0, elapsed |-> 0]

\* no ProgressMonitor is in use
NoProgress ==
    /\ monitor = ProgressMonitor_new(0)
    /\ replies = <<>>

\* the directory and the result of a call of find_video_files on its own
find_vars == <<listing, find_result>>

\* find_video_files has not returned
NotFound == [ok |-> FALSE, val |-> <<>>, err |-> ""]

\* no directory is being searched
NoFind ==
    /\ listing = <<>>
    /\ find_result = NotFound

\* the input and the output of a call of extract_ffmpeg_error on its own
extract_vars == <<stderr_lines, kept, diagnostic>>

\* what a call of execute_tasks leaves alone
pool_vars == <<max_workers, tasks, run_pc, threads, summary, exit, extract_vars,
               progress_vars, find_vars>>
main_vars == <<pc_main, cursor, results, ret>>

Units == 1..Len(tasks)

NoResult == [kind |-> "None", input |-> NoPath, output |-> NoPath, error |-> "",
             ffmpeg_result |-> NoFfmpegResult]
NotReturned == [ok |-> FALSE, val |-> empty]

\* what the units of a pool run are asked: the answers of the file system and
\* of the external process that the pool run explores
\* (a task run alone, run_pc = "task", is asked everything)
Alone == run_pc = "task"
FileLooks == IF Alone THEN FileStatuses ELSE {"file", "missing"}
DirLooks == IF Alone THEN DirStatuses ELSE {"writable"}
ExistsAnswers == IF Alone THEN IoAnswers ELSE {"ok"}
MkdirAnswers == IF Alone THEN IoAnswers ELSE {"ok"}
SpawnAnswers == IoAnswers
WaitEnds == IF Alone THEN ProcessEnds ELSE {w \in ProcessEnds : w.tag = "Exited"}

NoObs == <<>>
NoExit == -1

(***************************************************************************)
(* The task lists of the model: the sub-lists of CandidateTasks, which is  *)
(* sorted by input path as find_video_files sorts.                         *)
(***************************************************************************)
CandidateTasks ==
    <<FileTask(PathA, generate_output_path(PathA, OutputDir)),
      FileTask(PathA, PathA),
      FileTask(PathB, generate_output_path(PathB, OutputDir)),
      FileTask(PathD, generate_output_path(PathD, OutputDir))>>

RECURSIVE SubList(_, _, _)
SubList(xs, S, i) ==
    IF i > Len(xs) THEN <<>>
    ELSE (IF i \in S THEN <<xs[i]>> ELSE <<>>) \o SubList(xs, S, i + 1)

TaskLists ==
    {SubList(CandidateTasks, S, 1) :
        S \in {T \in SUBSET (1..Len(CandidateTasks)) : Cardinality(T) <= MaxTasks}}

(***************************************************************************)
(* WorkerPool::new followed by a call of execute_tasks.                    *)
(***************************************************************************)
\* mutant: the semaphore is made with one permit whatever max_workers
WorkerPool_new_single_permit(n) ==
    /\ max_workers = n
    /\ permits = 1

\* WorkerPool::new
WorkerPool_new(n) ==
    /\ max_workers = n
    /\ permits = n

\* the state of a call of execute_tasks that has not begun
Idle(state) ==
    /\ pc_main = state
    /\ cursor = 0
    /\ tx = {}
    /\ chan = <<>>
    /\ results = <<>>
    /\ ret = NotReturned
    /\ pc = [i \in Units |-> "unspawned"]
    /\ permit = [i \in Units |-> FALSE]
    /\ local = [i \in Units |-> NoResult]
    /\ child = [i \in Units |-> "none"]
    /\ obs = [i \in Units |-> NoObs]
    /\ send_failed = {}
    /\ kept = <<>>
    /\ diagnostic = ""
    /\ spawn_calls = [i \in Units |-> <<>>]

\* a pool of any size is made and execute_tasks is called on any task list
Init ==
    /\ \E n \in 0..MaxWorkers : WorkerPool_new(n)
    /\ stderr_lines = <<>>
    /\ NoProgress
    /\ NoFind
    /\ tasks \in TaskLists
    /\ Idle("start")
    /\ run_pc = "pool"
    /\ threads = max_workers
    /\ summary = ProcessingSummary_new
    /\ exit = NoExit

(***************************************************************************)
(* execute_tasks (worker.rs 69-130).                                       *)
(***************************************************************************)
\* mutant: the empty list is not returned early
Begin_without_empty_check ==
    /\ pc_main = "start"
    /\ tx' = {0}
    /\ cursor' = 1
    /\ pc_main' = "spawn"
    /\ UNCHANGED <<pool_vars, spawn_calls, permits, chan, results, ret, pc, permit, local, child,
                   obs, send_failed>>

\* lines 70-80: the empty list returns at once; otherwise the channel is made
Begin ==
    /\ pc_main = "start"
    /\ IF tasks = <<>>
       THEN /\ ret' = OkOf(empty)
            /\ pc_main' = "returned"
            /\ UNCHANGED <<tx, cursor>>
       ELSE /\ tx' = {0}
            /\ cursor' = 1
            /\ pc_main' = "spawn"
            /\ UNCHANGED ret
    /\ UNCHANGED <<pool_vars, spawn_calls, permits, chan, results, pc, permit, local, child,
                   obs, send_failed>>

\* lines 85-106: one turn of the for loop: clone tx, tokio::spawn the unit
SpawnUnit ==
    /\ pc_main = "spawn"
    /\ cursor <= Len(tasks)
    /\ tx' = tx \cup {cursor}
    /\ pc' = [pc EXCEPT ![cursor] = "acquire"]
    /\ cursor' = cursor + 1
    /\ UNCHANGED <<pool_vars, spawn_calls, permits, pc_main, chan, results, ret, permit, local,
                   child, obs, send_failed>>

\* mutant: the pool keeps its own sender while it collects
DropTx_forgotten ==
    /\ pc_main = "spawn"
    /\ cursor > Len(tasks)
    /\ pc_main' = "collect"
    /\ UNCHANGED <<pool_vars, spawn_calls, permits, cursor, tx, chan, results, ret, pc, permit,
                   local, child, obs, send_failed>>

\* line 109: drop(tx)
DropTx ==
    /\ pc_main = "spawn"
    /\ cursor > Len(tasks)
    /\ tx' = tx \ {0}
    /\ pc_main' = "collect"
    /\ UNCHANGED <<pool_vars, spawn_calls, permits, cursor, chan, results, ret, pc, permit,
                   local, child, obs, send_failed>>

\* lines 113-115: rx.recv() yields Some(result)
Recv ==
    /\ pc_main = "collect"
    /\ chan # <<>>
    /\ results' = Append(results, Head(chan))
    /\ chan' = Tail(chan)
    /\ UNCHANGED <<pool_vars, spawn_calls, permits, pc_main, cursor, tx, ret, pc, permit,
                   local, child, obs, send_failed>>

\* mutant: the loop ends as soon as the channel is empty (try_recv)
RecvClosed_when_empty ==
    /\ pc_main = "collect"
    /\ chan = <<>>
    /\ pc_main' = "join"
    /\ cursor' = 1
    /\ UNCHANGED <<pool_vars, spawn_calls, permits, tx, chan, results, ret, pc, permit, local,
                   child, obs, send_failed>>

\* line 113: rx.recv() yields None: the channel is empty and every sender
\* has been dropped
RecvClosed ==
    /\ pc_main = "collect"
    /\ chan = <<>>
    /\ tx = {}
    /\ pc_main' = "join"
    /\ cursor' = 1
    /\ UNCHANGED <<pool_vars, spawn_calls, permits, tx, chan, results, ret, pc, permit, local,
                   child, obs, send_failed>>

\* lines 118-122: handle.await of the next unit
Join ==
    /\ pc_main = "join"
    /\ cursor <= Len(tasks)
    /\ pc[cursor] = "done"
    /\ cursor' = cursor + 1
    /\ UNCHANGED <<pool_vars, spawn_calls, permits, pc_main, tx, chan, results, ret, pc,
                   permit, local, child, obs, send_failed>>

\* lines 124-129
Return ==
    /\ pc_main = "join"
    /\ cursor > Len(tasks)
    /\ ret' = OkOf(from_task_results(results, "elapsed"))
    /\ pc_main' = "returned"
    /\ UNCHANGED <<pool_vars, spawn_calls, permits, cursor, tx, chan, results, pc, permit,
                   local, child, obs, send_failed>>

\* the caller drops the future of execute_tasks while it is suspended at
\* rx.recv().await (line 113) or at handle.await (line 119): rx goes, and
\* what it still held, with the results collected so far and the
\* JoinHandles; the units were given to tokio::spawn and run on, detached
Cancel ==
    /\ pc_main \in {"collect", "join"}
    /\ pc_main' = "cancelled"
    /\ chan' = <<>>
    /\ results' = <<>>
    /\ UNCHANGED <<pool_vars, spawn_calls, permits, cursor, tx, ret, pc, permit, local,
                   child, obs, send_failed>>

(***************************************************************************)
(* A unit of work: the future given to tokio::spawn (worker.rs 89-103),    *)
(* process_single_file (217-295), execute_ffmpeg_command (ffmpeg.rs        *)
(* 66-142).                                                                *)
(***************************************************************************)
\* the receiver rx lives until execute_tasks returns or its future is dropped
rx_open == pc_main \notin {"returned", "cancelled"}

\* mutant: the unit starts without waiting for a permit
Acquire_without_waiting(i) ==
    /\ pc[i] = "acquire"
    /\ permits' = permits - 1
    /\ permit' = [permit EXCEPT ![i] = TRUE]
    /\ pc' = [pc EXCEPT ![i] = "validate"]
    /\ UNCHANGED <<pool_vars, spawn_calls, main_vars, tx, chan, local, child, obs, send_failed>>

\* line 91: semaphore.acquire().await
Acquire(i) ==
    /\ pc[i] = "acquire"
    /\ permits > 0
    /\ permits' = permits - 1
    /\ permit' = [permit EXCEPT ![i] = TRUE]
    /\ pc' = [pc EXCEPT ![i] = "validate"]
    /\ UNCHANGED <<pool_vars, spawn_calls, main_vars, tx, chan, local, child, obs, send_failed>>

\* mutant: a unit whose validation fails ends without publishing a result
Validate_drops_on_failure(i) ==
    /\ pc[i] = "validate"
    /\ \E in_st \in FileLooks, out_st \in DirLooks, in_st2 \in FileLooks :
         LET v == validate_task(tasks[i], in_st, out_st, in_st2)
             first == FileTask_validate(tasks[i], in_st, out_st)
         IN  /\ ~utils_validate_input_file(tasks[i].input, in_st).ok
                   => out_st = "writable"
             /\ ~first.ok => in_st2 = "file"
             /\ obs' = [obs EXCEPT ![i] = <<in_st, out_st, in_st2>>]
             /\ pc' = [pc EXCEPT ![i] = IF v.ok THEN "prepare" ELSE "release"]
             /\ UNCHANGED local
    /\ UNCHANGED <<pool_vars, spawn_calls, main_vars, permits, tx, chan, permit, child,
                   send_failed>>

\* process_single_file, lines 224-250: task.validate() and validate_input_file;
\* the second look at the input is taken only when the first validation passed
Validate(i) ==
    /\ pc[i] = "validate"
    /\ \E in_st \in FileLooks, out_st \in DirLooks, in_st2 \in FileLooks :
         LET v == validate_task(tasks[i], in_st, out_st, in_st2)
             first == FileTask_validate(tasks[i], in_st, out_st)
         IN  /\ ~utils_validate_input_file(tasks[i].input, in_st).ok
                   => out_st = "writable"
             /\ ~first.ok => in_st2 = "file"
             /\ obs' = [obs EXCEPT ![i] = <<in_st, out_st, in_st2>>]
             /\ IF v.ok
                THEN /\ pc' = [pc EXCEPT ![i] = "prepare"]
                     /\ UNCHANGED local
                ELSE /\ pc' = [pc EXCEPT ![i] = "send"]
                     /\ local' = [local EXCEPT ![i] = v.err]
    /\ UNCHANGED <<pool_vars, spawn_calls, main_vars, permits, tx, chan, permit, child,
                   send_failed>>

\* mutant: a spawn that failed is tried again
Prepare_retries_spawn(i) ==
    /\ pc[i] = "prepare"
    /\ \E exists \in ExistsAnswers, mkdir \in MkdirAnswers, spawn \in SpawnAnswers :
         LET cmd == FfmpegCommand(tasks[i].input, tasks[i].output)
             r == execute_prepare(cmd, exists, mkdir, spawn)
         IN  /\ exists # "ok" => mkdir = "ok"
             /\ (exists # "ok" \/ mkdir # "ok") => spawn = "ok"
             /\ spawn_calls' = [spawn_calls EXCEPT ![i] =
                    IF exists = "ok" /\ mkdir = "ok"
                    THEN Append(@, FfmpegCommand_args(cmd))
                    ELSE @]
             /\ IF r.ok
                THEN /\ obs' = [obs EXCEPT ![i] = @ \o <<exists, mkdir, spawn>>]
                     /\ child' = [child EXCEPT ![i] = "running"]
                     /\ pc' = [pc EXCEPT ![i] = "wait"]
                     /\ UNCHANGED local
                ELSE IF spawn # "ok"
                THEN UNCHANGED <<obs, child, pc, local>>
                ELSE /\ obs' = [obs EXCEPT ![i] = @ \o <<exists, mkdir, spawn>>]
                     /\ local' = [local EXCEPT ![i] = task_result(tasks[i], r)]
                     /\ pc' = [pc EXCEPT ![i] = "send"]
                     /\ UNCHANGED child
    /\ UNCHANGED <<pool_vars, main_vars, permits, tx, chan, permit, send_failed>>

\* execute_ffmpeg_command, lines 72-92: the input exists, create_dir_all, spawn
\* with cmd.args(); a step is asked only when the steps before it passed
Prepare(i) ==
    /\ pc[i] = "prepare"
    /\ \E exists \in ExistsAnswers, mkdir \in MkdirAnswers, spawn \in SpawnAnswers :
         LET cmd == FfmpegCommand(tasks[i].input, tasks[i].output)
             r == execute_prepare(cmd, exists, mkdir, spawn)
         IN  /\ exists # "ok" => mkdir = "ok"
             /\ (exists # "ok" \/ mkdir # "ok") => spawn = "ok"
             /\ obs' = [obs EXCEPT ![i] = @ \o <<exists, mkdir, spawn>>]
             /\ spawn_calls' = [spawn_calls EXCEPT ![i] =
                    IF exists = "ok" /\ mkdir = "ok"
                    THEN Append(@, FfmpegCommand_args(cmd))
                    ELSE @]
             /\ IF r.ok
                THEN /\ child' = [child EXCEPT ![i] = "running"]
                     /\ pc' = [pc EXCEPT ![i] = "wait"]
                     /\ UNCHANGED local
                ELSE /\ local' = [local EXCEPT ![i] = task_result(tasks[i], r)]
                     /\ pc' = [pc EXCEPT ![i] = "send"]
                     /\ UNCHANGED child
    /\ UNCHANGED <<pool_vars, main_vars, permits, tx, chan, permit, send_failed>>

\* mutant: the permit is given back as soon as the process has ended, before
\* the result is published
Complete_gives_permit_back(i) ==
    /\ pc[i] = "wait"
    /\ child[i] = "running"
    /\ \E w \in WaitEnds :
         LET cmd == FfmpegCommand(tasks[i].input, tasks[i].output)
         IN  /\ obs' = [obs EXCEPT ![i] = @ \o <<w>>]
             /\ local' = [local EXCEPT ![i] = task_result(tasks[i], execute_wait(cmd, w))]
    /\ child' = [child EXCEPT ![i] = "exited"]
    /\ permits' = permits + 1
    /\ permit' = [permit EXCEPT ![i] = FALSE]
    /\ pc' = [pc EXCEPT ![i] = "send"]
    /\ UNCHANGED <<pool_vars, spawn_calls, main_vars, tx, chan, send_failed>>

\* lines 95-132: child.wait_with_output() completes before the timer
Complete(i) ==
    /\ pc[i] = "wait"
    /\ child[i] = "running"
    /\ \E w \in WaitEnds :
         LET cmd == FfmpegCommand(tasks[i].input, tasks[i].output)
         IN  /\ obs' = [obs EXCEPT ![i] = @ \o <<w>>]
             /\ local' = [local EXCEPT ![i] = task_result(tasks[i], execute_wait(cmd, w))]
    /\ child' = [child EXCEPT ![i] = "exited"]
    /\ pc' = [pc EXCEPT ![i] = "send"]
    /\ UNCHANGED <<pool_vars, spawn_calls, main_vars, permits, tx, chan, permit, send_failed>>

\* what becomes of the child when the wait is cut off: the future
\* child.wait_with_output() is dropped and the Child with it; the Command was
\* not built with kill_on_drop(true) and nothing calls kill(), so the process
\* keeps running; what becomes of it later is outside the program
child_after_timeout(c) == c

\* lines 133-138: the timer of timeout(FFMPEG_TIMEOUT, ..) fires first
TimeoutFires(i) ==
    /\ pc[i] = "wait"
    /\ child[i] = "running"
    /\ LET cmd == FfmpegCommand(tasks[i].input, tasks[i].output)
       IN  /\ obs' = [obs EXCEPT ![i] = @ \o <<Elapsed>>]
           /\ local' = [local EXCEPT ![i] =
                           task_result(tasks[i], execute_wait(cmd, Elapsed))]
    /\ child' = [child EXCEPT ![i] = child_after_timeout(@)]
    /\ pc' = [pc EXCEPT ![i] = "send"]
    /\ UNCHANGED <<pool_vars, spawn_calls, main_vars, permits, tx, chan, permit, send_failed>>

\* mutant: a unit whose send failed ends there, its permit never given back
Send_failure_keeps_permit(i) ==
    /\ pc[i] = "send"
    /\ IF rx_open
       THEN /\ chan' = Append(chan, local[i])
            /\ pc' = [pc EXCEPT ![i] = "release"]
            /\ UNCHANGED send_failed
       ELSE /\ send_failed' = send_failed \cup {i}
            /\ pc' = [pc EXCEPT ![i] = "finish"]
            /\ UNCHANGED chan
    /\ local' = [local EXCEPT ![i] = NoResult]
    /\ UNCHANGED <<pool_vars, spawn_calls, main_vars, permits, tx, permit, child, obs>>

\* lines 98-100: tx.send(result); Err only when the receiver is gone
Send(i) ==
    /\ pc[i] = "send"
    /\ IF rx_open
       THEN /\ chan' = Append(chan, local[i])
            /\ UNCHANGED send_failed
       ELSE /\ send_failed' = send_failed \cup {i}
            /\ UNCHANGED chan
    /\ local' = [local EXCEPT ![i] = NoResult]
    /\ pc' = [pc EXCEPT ![i] = "release"]
    /\ UNCHANGED <<pool_vars, spawn_calls, main_vars, permits, tx, permit, child, obs>>

\* mutant: the permit is given back by hand on the success path only
Release_on_success_only(i) ==
    /\ pc[i] = "release"
    /\ permits' = IF child[i] = "exited" THEN permits + 1 ELSE permits
    /\ permit' = [permit EXCEPT ![i] = FALSE]
    /\ pc' = [pc EXCEPT ![i] = "finish"]
    /\ UNCHANGED <<pool_vars, spawn_calls, main_vars, tx, chan, local, child, obs, send_failed>>

\* line 103: the end of the async block drops _permit
Release(i) ==
    /\ pc[i] = "release"
    /\ permits' = permits + 1
    /\ permit' = [permit EXCEPT ![i] = FALSE]
    /\ pc' = [pc EXCEPT ![i] = "finish"]
    /\ UNCHANGED <<pool_vars, spawn_calls, main_vars, tx, chan, local, child, obs, send_failed>>

\* the finished future is dropped, and the clone of tx it captured with it;
\* the JoinHandle becomes ready
Finish(i) ==
    /\ pc[i] = "finish"
    /\ tx' = tx \ {i}
    /\ pc' = [pc EXCEPT ![i] = "done"]
    /\ UNCHANGED <<pool_vars, spawn_calls, main_vars, permits, chan, permit, local, child, obs,
                   send_failed>>

UnitStep(i) ==
    \/ Acquire(i)
    \/ Validate(i)
    \/ Prepare(i)
    \/ Complete(i)
    \/ TimeoutFires(i)
    \/ Send(i)
    \/ Release(i)
    \/ Finish(i)

PoolStep ==
    \/ Begin
    \/ SpawnUnit
    \/ DropTx
    \/ Recv
    \/ RecvClosed
    \/ Join
    \/ Return

Next ==
    \/ PoolStep
    \/ \E i \in Units : UnitStep(i)

Spec == Init /\ [][Next]_vars

\* the unit of task i, when there is such a task
UnitOf(i) == i \in Units /\ UnitStep(i)

\* the tokio runtime runs every task that is ready: the body of execute_tasks
\* and each spawned unit keep taking their steps; a spawned ffmpeg either
\* exits or is cut off by the timer
LiveSpec ==
    /\ Spec
    /\ WF_vars(PoolStep)
    /\ \A i \in 1..MaxTasks : WF_vars(UnitOf(i))

\* execute_tasks called by a caller that may drop its future
NextOrCancel ==
    \/ Next
    \/ Cancel

SpecCancel == Init /\ [][NextOrCancel]_vars

\* the runtime as in LiveSpec; the caller is free to cancel or not
LiveCancel ==
    /\ SpecCancel
    /\ WF_vars(PoolStep)
    /\ \A i \in 1..MaxTasks : WF_vars(UnitOf(i))

(***************************************************************************)
(* One task run alone on a pool of one permit, the file system and the     *)
(* external process answering in every way they can.                       *)
(***************************************************************************)
\* a file without an extension
PathN == Path(InputDir, "noext", "")

\* the tasks create_file_tasks builds from one file, the output directory
\* being /out or the input directory itself
BuiltTasks ==
    {create_file_tasks(<<p>>, d)[1] :
        p \in {PathA, PathB, PathC, PathN}, d \in {OutputDir, InputDir}}

\* those, and a task made by FileTask::new whose output is its input
SingleTasks == BuiltTasks \cup {FileTask(PathA, PathA)}

TaskInit ==
    /\ WorkerPool_new(1)
    /\ stderr_lines = <<>>
    /\ NoProgress
    /\ NoFind
    /\ \E t \in SingleTasks : tasks = <<t>>
    /\ Idle("start")
    /\ run_pc = "task"
    /\ threads = 1
    /\ summary = ProcessingSummary_new
    /\ exit = NoExit

SpecTask == TaskInit /\ [][Next]_vars

(***************************************************************************)
(* extract_ffmpeg_error on its own: a text of stderr is an optional first  *)
(* line, then some metadata lines, then a few lines of any kind.           *)
(***************************************************************************)
MetadataLine == "  Metadata:"
CreationLine == "    creation_time   : 2023-01-01T00:00:00.000000Z"
NoSuchFileLine == "Error: No such file or directory"
InputOutputLine == "av_interleaved_write_frame(): Input/output error"
StderrLines ==
    {MetadataLine, CreationLine, NoSuchFileLine, InputOutputLine,
     "x.mp4: No such file or directory"}

RECURSIVE Repeat(_, _)
Repeat(x, n) == IF n = 0 THEN <<>> ELSE <<x>> \o Repeat(x, n - 1)

SeqsUpTo(S, n) == UNION {[1..k -> S] : k \in 0..n}

ExtractInit ==
    /\ WorkerPool_new(0)
    /\ tasks = <<>>
    /\ Idle("idle")
    /\ run_pc = "extract"
    /\ threads = 0
    /\ summary = ProcessingSummary_new
    /\ exit = NoExit
    /\ \E head \in SeqsUpTo(StderrLines, 1), n \in 0..MaxFill,
          tail \in SeqsUpTo(StderrLines, MaxTail) :
         stderr_lines = head \o Repeat(MetadataLine, n) \o tail
    /\ NoProgress
    /\ NoFind

\* extract_ffmpeg_error(&stderr)
Extract ==
    /\ run_pc = "extract"
    /\ kept' = extract_lines(stderr_lines)
    /\ diagnostic' = extract_ffmpeg_error(stderr_lines)
    /\ run_pc' = "extracted"
    /\ UNCHANGED <<max_workers, permits, tasks, pc_main, cursor, tx, chan, results,
                   ret, pc, permit, local, child, obs, send_failed, threads,
                   summary, exit, stderr_lines, spawn_calls, progress_vars, find_vars>>

SpecExtract == ExtractInit /\ [][Extract]_vars

(***************************************************************************)
(* A ProcessingSummary on its own: any sequence of add_success,            *)
(* add_failure and set_total_duration on a new summary.                    *)
(***************************************************************************)
SummaryInit ==
    /\ WorkerPool_new(0)
    /\ stderr_lines = <<>>
    /\ NoProgress
    /\ NoFind
    /\ tasks = <<>>
    /\ Idle("idle")
    /\ run_pc = "summary"
    /\ threads = 0
    /\ summary = ProcessingSummary_new
    /\ exit = NoExit

pool_state == <<max_workers, permits, tasks, pc_main, cursor, tx, chan, results,
                ret, pc, permit, local, child, obs, send_failed,
                extract_vars, spawn_calls, progress_vars, find_vars>>

AddSuccess ==
    /\ run_pc = "summary"
    /\ summary.successful < MaxCount
    /\ \E input \in {PathA, PathB} :
         summary' = add_success(summary, input,
                                generate_output_path(input, OutputDir), "d")
    /\ UNCHANGED <<pool_state, run_pc, threads, exit>>

AddFailure ==
    /\ run_pc = "summary"
    /\ summary.failed < MaxCount
    /\ \E input \in {PathA, PathB} :
         summary' = add_failure(summary, input, "FFmpeg error")
    /\ UNCHANGED <<pool_state, run_pc, threads, exit>>

SetTotalDuration ==
    /\ run_pc = "summary"
    /\ \E d \in {"ZERO", "elapsed"} : summary' = set_total_duration(summary, d)
    /\ UNCHANGED <<pool_state, run_pc, threads, exit>>

SummaryNext ==
    \/ AddSuccess
    \/ AddFailure
    \/ SetTotalDuration

SpecSummary == SummaryInit /\ [][SummaryNext]_vars

(***************************************************************************)
(* main and run (src/src/main.rs).                                         *)
(***************************************************************************)
\* --threads as given on the command line; NoThreads stands for None
NoThreads == -1
CliThreads == {NoThreads, 0, 1, MAX_THREADS + 1}

\* AppConfig::default_thread_count on the machines of the model: what
\* available_parallelism reports, a small machine and one with more cores
\* than MAX_THREADS
CpuCounts == {MaxWorkers, 2 * MAX_THREADS}

\* CliArgs::validate_and_normalize, lines 77-89: the thread count
validate_threads(given, cpus) ==
    IF given # NoThreads
    THEN IF given = 0 THEN ErrOf("InvalidThreadCount")
         ELSE IF given > MAX_THREADS THEN ErrOf("InvalidThreadCount")
         ELSE OkOf(given)
    ELSE OkOf(cpus)

\* CliArgs::validate_and_normalize; dirs is what the checks of the input and
\* output directories give
validate_and_normalize(dirs, given, cpus) ==
    IF dirs # "ok" THEN ErrOf(dirs) ELSE validate_threads(given, cpus)

\* utils::find_video_files on a readable tree holding the files of S: the
\* supported regular files, sorted
find_video_files(S) ==
    SelectSeq(SortedPaths, LAMBDA p : p \in S /\ is_supported_video_file(p))

\* the trees of the model: any set of at most MaxTasks of the files
Trees ==
    {S \in SUBSET {PathA, PathB, PathC, PathE} : Cardinality(S) <= MaxTasks}

\* main, lines 17-29: run() returned Err(e)
ExitOnError ==
    /\ exit' = CRITICAL_ERROR
    /\ run_pc' = "exited"

\* run() returned Ok(code)
ExitWith(code) ==
    /\ exit' = code
    /\ run_pc' = "exited"

MainInit ==
    /\ WorkerPool_new(0)
    /\ stderr_lines = <<>>
    /\ NoProgress
    /\ NoFind
    /\ tasks = <<>>
    /\ Idle("idle")
    /\ run_pc = "parse"
    /\ threads = 0
    /\ summary = ProcessingSummary_new
    /\ exit = NoExit

\* run, line 34: CliArgs::parse_args is clap's Parser::parse, which ends the
\* process itself on a command line it cannot use (code 2) and on --help or
\* --version (code 0)
ParseArgs ==
    /\ run_pc = "parse"
    /\ \E line \in {"parsed", "usage", "help"} :
         IF line = "parsed"
         THEN run_pc' = "args" /\ UNCHANGED exit
         ELSE /\ exit' = (IF line = "usage" THEN 2 ELSE 0)
              /\ run_pc' = "exited_in_parse"
    /\ UNCHANGED <<pool_state, threads, summary>>

\* run, line 37: args.validate_and_normalize()?
ValidateArgs ==
    /\ run_pc = "args"
    /\ \E dirs \in {"ok", "InputDirectoryNotFound", "InvalidArgument",
                    "OutputDirectoryCreationFailed"},
          given \in CliThreads, cpus \in CpuCounts :
         LET r == validate_and_normalize(dirs, given, cpus)
         IN  IF r.ok
             THEN /\ threads' = r.val
                  /\ run_pc' = "ffmpeg"
                  /\ UNCHANGED exit
             ELSE /\ ExitOnError
                  /\ UNCHANGED threads
    /\ UNCHANGED <<pool_state, summary>>

\* run, line 40: validated_args.check_ffmpeg_availability().await?
CheckFfmpeg ==
    /\ run_pc = "ffmpeg"
    /\ \E found \in BOOLEAN :
         IF found
         THEN run_pc' = "logging" /\ UNCHANGED exit
         ELSE ExitOnError
    /\ UNCHANGED <<pool_state, threads, summary>>

\* run, lines 43-48: logger::initialize_logging(..)?
InitLogging ==
    /\ run_pc = "logging"
    /\ \E ok \in BOOLEAN :
         IF ok
         THEN run_pc' = "version" /\ UNCHANGED exit
         ELSE ExitOnError
    /\ UNCHANGED <<pool_state, threads, summary>>

\* run, lines 54-60: ffmpeg::check_ffmpeg_availability().await
CheckVersion ==
    /\ run_pc = "version"
    /\ \E found \in BOOLEAN :
         IF found
         THEN run_pc' = "find" /\ UNCHANGED exit
         ELSE ExitWith(CRITICAL_ERROR)
    /\ UNCHANGED <<pool_state, threads, summary>>

\* run, lines 66-87: find_video_files, create_file_tasks, WorkerPool::new and
\* the call of execute_tasks
FindAndStart ==
    /\ run_pc = "find"
    /\ \E readable \in BOOLEAN, S \in Trees :
         LET video_files == find_video_files(S)
         IN  IF ~readable
             THEN ExitOnError /\ UNCHANGED <<pool_state>>
             ELSE IF video_files = <<>>
             THEN ExitWith(CRITICAL_ERROR) /\ UNCHANGED <<pool_state>>
             ELSE /\ tasks' = create_file_tasks(video_files, OutputDir)
                  /\ max_workers' = threads
                  /\ permits' = threads
                  /\ pc_main' = "start"
                  /\ pc' = [i \in 1..Len(video_files) |-> "unspawned"]
                  /\ permit' = [i \in 1..Len(video_files) |-> FALSE]
                  /\ local' = [i \in 1..Len(video_files) |-> NoResult]
                  /\ child' = [i \in 1..Len(video_files) |-> "none"]
                  /\ obs' = [i \in 1..Len(video_files) |-> NoObs]
                  /\ spawn_calls' = [i \in 1..Len(video_files) |-> <<>>]
                  /\ run_pc' = "pool"
                  /\ UNCHANGED <<cursor, tx, chan, results, ret, send_failed, exit>>
    /\ UNCHANGED <<threads, summary, extract_vars, progress_vars, find_vars>>

\* run, lines 87-96: execute_tasks(tasks).await?, the summary and its exit code
Report ==
    /\ run_pc = "pool"
    /\ pc_main = "returned"
    /\ IF ret.ok
       THEN /\ summary' = to_processing_summary(ret.val)
            /\ ExitWith(exit_code(to_processing_summary(ret.val)))
       ELSE /\ ExitOnError
            /\ UNCHANGED summary
    /\ UNCHANGED <<pool_state, threads>>

RunStep ==
    \/ ParseArgs
    \/ ValidateArgs
    \/ CheckFfmpeg
    \/ InitLogging
    \/ CheckVersion
    \/ FindAndStart
    \/ Report

MainNext ==
    \/ RunStep
    \/ PoolStep
    \/ \E i \in Units : UnitStep(i)

SpecMain == MainInit /\ [][MainNext]_vars

(***************************************************************************)
(* ProgressMonitor (worker.rs 314-362): one monitor shared by any number   *)
(* of threads, which call its methods in any order while time passes.      *)
(* completed_tasks is an AtomicUsize: fetch_add is one indivisible         *)
(* read-modify-write whatever the ordering, so a call of                   *)
(* increment_completed is one step.  Durations are whole nanoseconds.  The *)
(* f64 of progress_percentage is kept as the exact ratio; rounding to the  *)
(* nearest f64 does not move a value across 0 or 100.  completed as u32    *)
(* is completed for every count of the model.                              *)
(***************************************************************************)
Ratio(num, den) == [num |-> num, den |-> den]

\* Option<Duration>
None == [some |-> FALSE, val |-> 0]
Some(d) == [some |-> TRUE, val |-> d]

\* usize::saturating_sub
saturating_sub(a, b) == IF a >= b THEN a - b ELSE 0

\* ProgressMonitor::increment_completed: the monitor after the call and the
\* value returned
increment_completed(m) ==
    [monitor |-> [m EXCEPT !.completed_tasks = @ + 1],
     value |-> m.completed_tasks + 1]

\* ProgressMonitor::progress_percentage
progress_percentage(m) ==
    LET completed == m.completed_tasks
    IN  IF m.total_tasks = 0 THEN Ratio(100, 1)
        ELSE Ratio(completed * 100, m.total_tasks)

\* mutant: the average is taken over all the tasks
estimated_time_remaining_over_total(m) ==
    LET completed == m.completed_tasks
        avg_time_per_task == m.elapsed \div m.total_tasks
        remaining_tasks == saturating_sub(m.total_tasks, completed)
    IN  IF completed = 0 THEN None
        ELSE IF remaining_tasks = 0 THEN Some(0)
        ELSE Some(avg_time_per_task * remaining_tasks)

\* ProgressMonitor::estimated_time_remaining
estimated_time_remaining(m) ==
    LET completed == m.completed_tasks
        avg_time_per_task == m.elapsed \div completed
        remaining_tasks == saturating_sub(m.total_tasks, completed)
    IN  IF completed = 0 THEN None
        ELSE IF remaining_tasks = 0 THEN Some(0)
        ELSE Some(avg_time_per_task * remaining_tasks)

\* everything but the monitor
rest_of_program ==
    <<max_workers, permits, tasks, pc_main, cursor, tx, chan, results, ret, pc,
      permit, local, child, obs, send_failed, extract_vars, spawn_calls, run_pc,
      threads, summary, exit, find_vars>>

\* what a call answered, with the counter and the clock it read
Reply(call, m, value) ==
    [call |-> call, completed |-> m.completed_tasks, elapsed |-> m.elapsed,
     value |-> value]

\* the answers so far to the calls that only read
Asked == Len(SelectSeq(replies, LAMBDA r : r.call # "increment_completed"))

ProgressInit ==
    /\ WorkerPool_new(0)
    /\ tasks = <<>>
    /\ Idle("idle")
    /\ run_pc = "progress"
    /\ threads = 0
    /\ summary = ProcessingSummary_new
    /\ exit = NoExit
    /\ stderr_lines = <<>>
    /\ \E total_tasks \in 0..MaxTotal : monitor = ProgressMonitor_new(total_tasks)
    /\ replies = <<>>
    /\ NoFind

\* mutant: a plain read-modify-write; the counter was read some time before
\* the write
Increment_from_a_stale_load ==
    /\ run_pc = "progress"
    /\ monitor.completed_tasks < MaxCalls
    /\ \E seen \in 0..monitor.completed_tasks :
         LET stale == [monitor EXCEPT !.completed_tasks = seen]
         IN  /\ monitor' = increment_completed(stale).monitor
             /\ replies' = Append(replies,
                    Reply("increment_completed", monitor, increment_completed(stale).value))
    /\ UNCHANGED rest_of_program

\* some thread calls monitor.increment_completed()
Increment ==
    /\ run_pc = "progress"
    /\ monitor.completed_tasks < MaxCalls
    /\ monitor' = increment_completed(monitor).monitor
    /\ replies' = Append(replies,
           Reply("increment_completed", monitor, increment_completed(monitor).value))
    /\ UNCHANGED rest_of_program

\* some thread calls monitor.progress_percentage()
Percentage ==
    /\ run_pc = "progress"
    /\ Asked < MaxAsked
    /\ replies' = Append(replies,
           Reply("progress_percentage", monitor, progress_percentage(monitor)))
    /\ UNCHANGED <<rest_of_program, monitor>>

\* some thread calls monitor.estimated_time_remaining()
Eta ==
    /\ run_pc = "progress"
    /\ Asked < MaxAsked
    /\ replies' = Append(replies,
           Reply("estimated_time_remaining", monitor, estimated_time_remaining(monitor)))
    /\ UNCHANGED <<rest_of_program, monitor>>

\* a nanosecond passes: start_time.elapsed() grows
Tick ==
    /\ run_pc = "progress"
    /\ monitor.elapsed < MaxElapsed
    /\ monitor' = [monitor EXCEPT !.elapsed = @ + 1]
    /\ UNCHANGED <<rest_of_program, replies>>

ProgressNext ==
    \/ Increment
    \/ Percentage
    \/ Eta
    \/ Tick

SpecProgress == ProgressInit /\ [][ProgressNext]_vars

(***************************************************************************)
(* find_video_files (utils.rs 7-41) on an input directory with at most one *)
(* level of subdirectories.  A directory is the sequence of its entries in *)
(* the order read_dir yields them, which is any order.  An entry is its    *)
(* path, what is_dir and is_file say of it, and, for a directory, its own  *)
(* entries: "file" is a regular file, "dir" a directory that can be read,  *)
(* "locked" a directory read_dir fails on, "other" anything else (a        *)
(* socket, a dangling link).                                               *)
(***************************************************************************)
DirEntry(entry_path, kind, children) ==
    [path |-> entry_path, kind |-> kind, children |-> children]

SubDir == Path(InputDir, "sub", "")
\* a second file of the subdirectory
PathF == Path(display(SubDir), "c", "txt")

\* Path::file_name
file_name(q) == q.stem \o (IF q.ext = "" THEN "" ELSE "." \o q.ext)

\* Path::components, without the root
components(q) ==
    (IF q.dir = InputDir THEN <<"in">> ELSE <<"in", "sub">>) \o <<file_name(q)>>

\* the names of the model in the order of their bytes, which is the order
\* of str
ByteOrder == <<"a.mp4", "b.MP4", "c.txt", "d.mp4", "in", "noext", "sub">>

\* the place of a name in that order
rank(name) == CHOOSE k \in 1..Len(ByteOrder) : ByteOrder[k] = name

RECURSIVE components_less(_, _)
\* Ord for Path: the components compared one by one, a prefix first
components_less(a, b) ==
    IF b = <<>> THEN FALSE
    ELSE IF a = <<>> THEN TRUE
    ELSE IF Head(a) = Head(b) THEN components_less(Tail(a), Tail(b))
    ELSE rank(Head(a)) < rank(Head(b))

\* PathBuf: Ord
path_less(q1, q2) == components_less(components(q1), components(q2))

RECURSIVE insert_sorted(_, _)
\* q put in its place in a sorted vector, after the paths equal to it
insert_sorted(q, sorted) ==
    IF sorted = <<>> THEN <<q>>
    ELSE IF path_less(q, Head(sorted)) THEN <<q>> \o sorted
    ELSE <<Head(sorted)>> \o insert_sorted(q, Tail(sorted))

RECURSIVE sort(_)
\* Vec::sort, a stable sort
sort(paths) ==
    IF paths = <<>> THEN <<>>
    ELSE insert_sorted(paths[Len(paths)], sort(SubSeq(paths, 1, Len(paths) - 1)))

\* FileSystemError::cannot_read_dir
cannot_read_dir(dir_path) == FileSystemError("CannotReadDirectory", dir_path)

FoundOk(paths) == [ok |-> TRUE, val |-> paths, err |-> ""]
FoundErr(error) == [ok |-> FALSE, val |-> <<>>, err |-> FileSystemError_display(error)]

RECURSIVE find_files_recursive(_, _)
\* utils::find_files_recursive: the for loop over the entries of one
\* directory with the vector collected so far; the first directory that
\* cannot be read ends the search with its error
find_files_recursive(dir_entries, collected) ==
    IF dir_entries = <<>> THEN FoundOk(collected)
    ELSE LET entry == Head(dir_entries)
         IN  IF entry.kind = "locked" THEN FoundErr(cannot_read_dir(entry.path))
             ELSE IF entry.kind = "dir"
             THEN LET inner == find_files_recursive(entry.children, collected)
                  IN  IF inner.ok
                      THEN find_files_recursive(Tail(dir_entries), inner.val)
                      ELSE inner
             ELSE IF entry.kind = "file" /\ is_supported_video_file(entry.path)
             THEN find_files_recursive(Tail(dir_entries), Append(collected, entry.path))
             ELSE find_files_recursive(Tail(dir_entries), collected)

\* mutant: the vector is returned as collected
find_video_files_in_read_order(dir_entries) ==
    find_files_recursive(dir_entries, <<>>)

\* utils::find_video_files on a directory whose read_dir gives dir_entries
find_video_files_in(dir_entries) ==
    LET walked == find_files_recursive(dir_entries, <<>>)
    IN  IF walked.ok THEN FoundOk(sort(walked.val)) ELSE walked

\* the sequences without repetition of at most n members of S
Arrangements(S, n) ==
    {q \in SeqsUpTo(S, n) : \A a, b \in 1..Len(q) : a # b => q[a] # q[b]}

\* what the subdirectory may be
SubDirs ==
    {DirEntry(SubDir, "locked", <<>>)}
        \cup {DirEntry(SubDir, "dir", c) : c \in
                  Arrangements({DirEntry(PathE, "file", <<>>),
                                DirEntry(PathF, "file", <<>>)}, 2)}

\* what the input directory may hold
RootEntries ==
    {DirEntry(q, "file", <<>>) : q \in {PathA, PathB, PathC, PathD, PathN}}
        \cup {DirEntry(PathD, "other", <<>>)}
        \cup SubDirs

\* no two entries of a directory have the same name
DistinctNames(q) == \A a, b \in 1..Len(q) : a # b => q[a].path # q[b].path

FindInit ==
    /\ WorkerPool_new(0)
    /\ tasks = <<>>
    /\ Idle("idle")
    /\ run_pc = "find_files"
    /\ threads = 0
    /\ summary = ProcessingSummary_new
    /\ exit = NoExit
    /\ stderr_lines = <<>>
    /\ NoProgress
    /\ listing \in {q \in Arrangements(RootEntries, MaxEntries) : DistinctNames(q)}
    /\ find_result = NotFound

\* find_video_files(input_dir)
Find ==
    /\ run_pc = "find_files"
    /\ find_result' = find_video_files_in(listing)
    /\ run_pc' = "found_files"
    /\ UNCHANGED <<max_workers, permits, tasks, pc_main, cursor, tx, chan, results,
                   ret, pc, permit, local, child, obs, send_failed, threads,
                   summary, exit, extract_vars, spawn_calls, progress_vars, listing>>

SpecFind == FindInit /\ [][Find]_vars

(***************************************************************************)
(* Properties.                                                             *)
(***************************************************************************)
Returned == pc_main = "returned"

\* the results execute_tasks returned, successful first
Returned_results == ret.val.successful \o ret.val.failed

DistinctInputs ==
    \A i, j \in Units : i # j => tasks[i].input # tasks[j].input

\* the units inside process_single_file
InProcess == {i \in Units : pc[i] \in {"validate", "prepare", "wait"}}

\* the units that hold a permit
Holders == {i \in Units : permit[i]}

\* C1: the ProcessingResults returned by execute_tasks hold as many results,
\* successful and failed together, as tasks were submitted
C1_CountsAddUp ==
    Returned =>
        Len(ret.val.successful) + Len(ret.val.failed) = Len(tasks)

\* a run of two tasks returned one success and one failure
C1_Witness ==
    /\ Returned
    /\ Len(tasks) = 2
    /\ Len(ret.val.successful) = 1
    /\ Len(ret.val.failed) = 1

\* C2: with pairwise distinct input paths, the returned results hold exactly
\* one result per submitted input path and none for any other path
C2_OneResultPerTask ==
    (Returned /\ DistinctInputs) =>
        /\ \A i \in Units :
             Cardinality({k \in 1..Len(Returned_results) :
                            Returned_results[k].input = tasks[i].input}) = 1
        /\ \A k \in 1..Len(Returned_results) :
             \E i \in Units : Returned_results[k].input = tasks[i].input

\* two tasks with distinct inputs returned, the result of the second task
\* having arrived first, the first task having failed
C2_Witness ==
    /\ Returned
    /\ DistinctInputs
    /\ Len(tasks) = 2
    /\ results[1].input = tasks[2].input
    /\ results[2].input = tasks[1].input
    /\ results[2].kind = "Failure"

\* C3: at most max_workers units are inside process_single_file
C3_BoundedConcurrency == Cardinality(InProcess) <= max_workers

\* every permit is in use, one unit waits on the external process and
\* another unit waits for a permit
C3_Witness ==
    /\ max_workers >= 1
    /\ Cardinality(InProcess) = max_workers
    /\ \E i \in Units : pc[i] = "wait"
    /\ \E i \in Units : pc[i] = "acquire"

Classification(successful, failed) ==
    CASE successful = 0 /\ failed = 0 -> 1
      [] successful > 0 /\ failed = 0 -> 0
      [] successful = 0 /\ failed > 0 -> 1
      [] successful > 0 /\ failed > 0 -> 2

\* C5: exit_code is the four-quadrant table: (0,0) -> CRITICAL_ERROR,
\* (>0,0) -> SUCCESS, (0,>0) -> CRITICAL_ERROR, (>0,>0) -> PARTIAL_SUCCESS
C5_ExitCodeTable ==
    /\ SUCCESS = 0 /\ CRITICAL_ERROR = 1 /\ PARTIAL_SUCCESS = 2
    /\ exit_code(summary) = Classification(summary.successful, summary.failed)
    /\ (summary.successful > 0 /\ summary.failed > 0)
           => (exit_code(summary) = PARTIAL_SUCCESS
               /\ exit_code(summary) # CRITICAL_ERROR)

\* a summary of two successes and one failure, classified PARTIAL_SUCCESS
C5_Witness ==
    /\ run_pc = "summary"
    /\ summary.successful = 2
    /\ summary.failed = 1
    /\ exit_code(summary) = 2

\* C6: the exit code of the process is 0, 1 or 2; when the pool ran it is the
\* classification of the pool's counts; when run stopped before the pool
\* (an error, FFmpeg unavailable, no input file) it is 1 and no task ran
C6_ProcessExitCode ==
    /\ exit # NoExit <=> run_pc \in {"exited", "exited_in_parse"}
    /\ exit # NoExit => exit \in {0, 1, 2}
    /\ run_pc = "exited_in_parse" => pc_main = "idle"
    /\ run_pc = "exited" =>
        /\ pc_main = "returned" =>
               exit = Classification(success_count(ret.val), failure_count(ret.val))
        /\ pc_main # "returned" =>
               /\ exit = 1
               /\ pc_main = "idle"
               /\ tasks = <<>>
               /\ chan = <<>> /\ results = <<>>

\* the process exited with PARTIAL_SUCCESS after a pool run of one success
\* and one failure
C6_Witness ==
    /\ run_pc = "exited"
    /\ pc_main = "returned"
    /\ exit = 2
    /\ success_count(ret.val) = 1
    /\ failure_count(ret.val) = 1

\* the wait of unit i was cut off by the timer
TimedOut(i) == Len(obs[i]) = 7 /\ obs[i][7] = Elapsed

\* the results published so far, collected or still in the channel
Published == results \o chan

\* C7: a unit whose wait was cut off by the timer has as its result a Failure
\* for its input whose error is the Timeout error with the 600 seconds of
\* FFMPEG_TIMEOUT; that result is what it publishes and what is returned among
\* the failed results, and no Success is returned for that input
C7_TimeoutIsFailure ==
    \A i \in Units : TimedOut(i) =>
        LET expected ==
                [kind |-> "Failure", input |-> tasks[i].input, output |-> NoPath,
                 error |-> "FFmpeg error: FFmpeg process timeout after 600 seconds",
                 ffmpeg_result |-> NoFfmpegResult]
        IN  /\ pc[i] \in {"send", "release", "finish", "done"}
            /\ pc[i] = "send" => local[i] = expected
            /\ (pc[i] # "send" /\ DistinctInputs) =>
                   /\ \E k \in 1..Len(Published) : Published[k] = expected
                   /\ \A k \in 1..Len(Published) :
                          Published[k].input = tasks[i].input => Published[k] = expected
            /\ (Returned /\ DistinctInputs) =>
                   /\ \E k \in 1..Len(ret.val.failed) : ret.val.failed[k] = expected
                   /\ \A k \in 1..Len(ret.val.successful) :
                          ret.val.successful[k].input # tasks[i].input

\* execute_tasks returned for two tasks, the first cut off by the timer and
\* the second successful
C7_Witness ==
    /\ Returned
    /\ Len(tasks) = 2
    /\ DistinctInputs
    /\ TimedOut(1)
    /\ Len(ret.val.failed) = 1
    /\ ret.val.failed[1].input = tasks[1].input
    /\ Len(ret.val.successful) = 1

\* the external processes that are still running
Live == {i \in Units : child[i] = "running"}

\* C8: a unit whose wait was cut off by the timer has no running external
\* process any more, and there are never more running external processes
\* than permits held
C8_NoProcessOutlivesItsTask ==
    /\ \A i \in Units : TimedOut(i) => child[i] # "running"
    /\ Cardinality(Live) <= Cardinality(Holders)

\* what unit i saw made its task fail: a validation failed, the spawn
\* failed, the process exited with a non-zero code or the timer fired
Fails(o) ==
    \/ Len(o) = 3
    \/ Len(o) = 6
    \/ Len(o) = 7 /\ (o[7] = Elapsed \/ o[7].code # 0)

\* the result of a finished unit, from its task and from what it alone saw
outcome(task, o) ==
    LET cmd == FfmpegCommand(task.input, task.output)
    IN  IF Len(o) = 3 THEN validate_task(task, o[1], o[2], o[3]).err
        ELSE IF Len(o) = 6 THEN task_result(task, execute_prepare(cmd, o[4], o[5], o[6]))
        ELSE task_result(task, execute_wait(cmd, o[7]))

\* C9: whatever tasks fail, execute_tasks returns Ok after every unit has run
\* to its end; the returned results are, in some order, one result per task,
\* each determined by its own task and by what its own unit saw, a Failure
\* with the input of the task when the task failed and a Success otherwise
C9_ErrorsAreIsolated ==
    Returned =>
        /\ ret.ok
        /\ send_failed = {}
        /\ \A i \in Units : pc[i] = "done"
        /\ Len(Returned_results) = Len(tasks)
        /\ \E p \in [Units -> Units] :
              /\ \A i, j \in Units : p[i] = p[j] => i = j
              /\ \A i \in Units :
                    LET r == Returned_results[p[i]]
                    IN  /\ r = outcome(tasks[i], obs[i])
                        /\ r.input = tasks[i].input
                        /\ r.kind = IF Fails(obs[i]) THEN "Failure" ELSE "Success"
        /\ \A k \in 1..Len(ret.val.failed) : ret.val.failed[k].kind = "Failure"
        /\ \A k \in 1..Len(ret.val.successful) : ret.val.successful[k].kind = "Success"

\* with one permit, the first task failed its validation and the second,
\* which ran after it, succeeded
C9_Witness ==
    /\ Returned
    /\ max_workers = 1
    /\ Len(tasks) = 2
    /\ Len(obs[1]) = 3
    /\ results[1].input = tasks[1].input
    /\ Len(obs[2]) = 7
    /\ results[2].kind = "Success"

\* execute_tasks has returned with every result
Terminated ==
    /\ Returned
    /\ ret.ok
    /\ Len(results) = Len(tasks)
    /\ chan = <<>>
    /\ send_failed = {}
    /\ \A i \in Units : pc[i] = "done" /\ Len(obs[i]) >= 3

\* C10: with at least one permit, every task takes a permit and publishes
\* its result, the collecting loop ends with len(tasks) results, the joins
\* complete and execute_tasks returns
C10_Terminates == (max_workers >= 1) ~> Terminated

\* with one permit for two tasks, execute_tasks has returned, one of the
\* waits having been cut off by the timer
C10_Witness ==
    /\ Terminated
    /\ max_workers = 1
    /\ Len(tasks) = 2
    /\ \E i \in Units : TimedOut(i)
    /\ \E i \in Units : Len(obs[i]) = 7 /\ ~TimedOut(i)

\* C11: on an empty task list execute_tasks goes from its start straight to
\* its return: no channel is made, no unit spawned, no permit taken, and what
\* it returns is Ok of the empty ProcessingResults with a zero duration
C11_EmptyListReturnsAtOnce ==
    (run_pc = "pool" /\ tasks = <<>>) =>
        /\ pc_main \in {"start", "returned"}
        /\ tx = {} /\ chan = <<>> /\ results = <<>> /\ cursor = 0
        /\ permits = max_workers
        /\ Returned =>
              ret = [ok |-> TRUE,
                     val |-> [successful |-> <<>>, failed |-> <<>>,
                              total_duration |-> "ZERO"]]

\* a pool of two permits has returned from an empty task list
C11_Witness ==
    /\ tasks = <<>>
    /\ Returned
    /\ max_workers = 2
    /\ permits = 2
    /\ ret.ok

\* what process_single_file puts in front of the message of an error
FailurePrefixes ==
    {"Task validation failed: ", "Input file validation failed: ",
     "FFmpeg execution failed: ", "FFmpeg error: "}

\* the text of a Failure is the given message behind one of the prefixes
Carries(text, message) == text \in {p \o message : p \in FailurePrefixes}

\* unit i has looked at its input and found it missing or not a regular
\* file, or found a regular file without a supported extension under a
\* writable output directory
BadInput(i) ==
    /\ Len(obs[i]) >= 3
    /\ \/ obs[i][1] \in {"missing", "dir"}
       \/ /\ obs[i][1] = "file"
          /\ obs[i][2] = "writable"
          /\ tasks[i].input # tasks[i].output
          /\ ~is_supported_video_file(tasks[i].input)

\* C12: a task whose input is missing, is not a regular file or has no
\* supported extension spawns no process and ends with a Failure for its
\* input that carries the InvalidInputFormat error
C12_BadInputIsInvalidFormat ==
    \A i \in Units : BadInput(i) =>
        /\ child[i] = "none"
        /\ Len(obs[i]) = 3
        /\ pc[i] = "send" =>
              /\ local[i].kind = "Failure"
              /\ local[i].input = tasks[i].input
              /\ Carries(local[i].error,
                         FfmpegError_display(invalid_format(tasks[i].input)))

\* C13: a missing parent directory of the output does not end the task (the
\* directory is created and the process spawned), and a task ends with the
\* CannotSpawnProcess error only when creating that directory failed or
\* spawning the executable failed
C13_OnlySpawnFailuresAreCannotSpawn ==
    \A i \in Units : pc[i] = "send" =>
        /\ ~(/\ is_supported_video_file(tasks[i].input)
              /\ tasks[i].input # tasks[i].output
              /\ Len(obs[i]) = 3 /\ obs[i][1] = "file" /\ obs[i][2] = "missing")
        /\ Carries(local[i].error, FfmpegError_display(CannotSpawnProcess)) =>
              /\ Len(obs[i]) = 6
              /\ obs[i][5] = "fail" \/ obs[i][6] = "fail"

\* the external process of unit i exited with a non-zero code
ExitedNonZero(i) ==
    Len(obs[i]) = 7 /\ obs[i][7].tag = "Exited" /\ obs[i][7].code # 0

\* C14: when the external process exited with a non-zero code, the result of
\* the task is a Failure whose text carries the diagnostic that
\* extract_ffmpeg_error derives from the stderr of the process, alone or
\* after the message of the ExecutionFailed error
C14_FailureCarriesDiagnostic ==
    \A i \in Units : (pc[i] = "send" /\ ExitedNonZero(i)) =>
        LET w == obs[i][7]
            cmd == FfmpegCommand(tasks[i].input, tasks[i].output)
            diagnostic_of_stderr == extract_ffmpeg_error(w.stderr)
            failed == FfmpegError_display(
                          execution_failed(w.code, w.stderr, cmd.command_string))
        IN  /\ local[i].kind = "Failure"
            /\ \/ Carries(local[i].error, diagnostic_of_stderr)
               \/ Carries(local[i].error, failed \o ": " \o diagnostic_of_stderr)

\* unit i saw both validations pass, the process spawned and the process
\* exit with code 0 before the timer
Passed(i) ==
    /\ Len(obs[i]) = 7
    /\ obs[i][1] = "file" /\ obs[i][2] = "writable"
    /\ tasks[i].input # tasks[i].output
    /\ obs[i][3] \notin {"missing", "dir"}
    /\ is_supported_video_file(tasks[i].input)
    /\ obs[i][4] = "ok" /\ obs[i][5] = "ok" /\ obs[i][6] = "ok"
    /\ obs[i][7].tag = "Exited" /\ obs[i][7].code = 0

\* a Success as the claim describes it
GoodSuccess(r) ==
    /\ r.ffmpeg_result.success
    /\ r.ffmpeg_result.exit_code = 0
    /\ \E j \in Units : r.input = tasks[j].input /\ r.output = tasks[j].output

\* C15: the result a unit is about to send is a Success exactly when both
\* validations passed, the process was spawned and it exited with code 0
\* before the timeout; every Success, about to be sent, published or
\* returned, has success = true, exit_code = 0 and the paths of its task
C15_SuccessIffAllPassed ==
    /\ \A i \in Units : pc[i] = "send" =>
          /\ local[i].kind \in {"Success", "Failure"}
          /\ local[i].kind = "Success" <=> Passed(i)
          /\ local[i].kind = "Success" => GoodSuccess(local[i])
    /\ \A k \in 1..Len(Published) :
          Published[k].kind = "Success" => GoodSuccess(Published[k])
    /\ \A k \in 1..Len(ret.val.successful) : GoodSuccess(ret.val.successful[k])
    /\ \A k \in 1..Len(ret.val.failed) : ret.val.failed[k].kind = "Failure"

\* the task of /in/b.MP4 has been returned as a Success
C15_Witness ==
    /\ Returned
    /\ tasks[1].input = PathB
    /\ Passed(1)
    /\ Len(ret.val.successful) = 1
    /\ ret.val.successful[1].output = generate_output_path(PathB, OutputDir)

\* the last n elements of xs, or all of xs
LastN(xs, n) == SubSeq(xs, IF Len(xs) > n THEN Len(xs) - n + 1 ELSE 1, Len(xs))

Range(xs) == {xs[k] : k \in 1..Len(xs)}

\* the line matches the error tokens
Matches(line) ==
    \/ \E token \in {"error", "failed", "invalid", "cannot"} :
          lower_contains(line, token)
    \/ lower_contains(line, "no such file") /\ lower_contains(line, "directory")

Extracted == run_pc = "extracted"

\* C16: when one of the last 10 lines of the text matches, the diagnostic is
\* exactly the matching lines among the last 10, in their original order,
\* joined with " | "
C16_MatchingLinesInOrder ==
    Extracted =>
        LET matching == SelectSeq(LastN(stderr_lines, 10), Matches)
        IN  matching # <<>> =>
                /\ kept = matching
                /\ diagnostic = join(matching, " | ")

\* a text of 12 lines whose first line matches and is left out, and whose
\* last 10 lines hold two matching lines around a metadata line
C16_Witness ==
    /\ Extracted
    /\ Len(stderr_lines) = 12
    /\ Matches(stderr_lines[1])
    /\ SubSeq(stderr_lines, 10, 12) = <<NoSuchFileLine, MetadataLine, InputOutputLine>>
    /\ diagnostic =
         "Error: No such file or directory | av_interleaved_write_frame(): Input/output error"

\* C17: when no line of the text matches, the diagnostic is the last 3 lines
\* (all lines when there are fewer), in their original order, joined with
\* " | "
C17_FallbackLastThree ==
    (Extracted /\ \A k \in 1..Len(stderr_lines) : ~Matches(stderr_lines[k])) =>
        /\ kept = LastN(stderr_lines, 3)
        /\ diagnostic = join(LastN(stderr_lines, 3), " | ")

\* a text of more than 3 lines, none matching, ending in three lines that
\* are not all the same
C17_Witness ==
    /\ Extracted
    /\ Len(stderr_lines) > 3
    /\ \A k \in 1..Len(stderr_lines) : ~Matches(stderr_lines[k])
    /\ stderr_lines[1] = CreationLine
    /\ kept = <<MetadataLine, CreationLine, MetadataLine>>
    /\ diagnostic =
         "  Metadata: |     creation_time   : 2023-01-01T00:00:00.000000Z |   Metadata:"

\* the text holds the line "Error: No such file or directory" and otherwise
\* only metadata lines
AmongMetadata ==
    /\ NoSuchFileLine \in Range(stderr_lines)
    /\ Range(stderr_lines) \subseteq {NoSuchFileLine, MetadataLine, CreationLine}

\* C18 as stated: wherever the line "Error: No such file or directory" stands
\* among metadata lines, the diagnostic includes it
C18_LineAlwaysIncluded ==
    (Extracted /\ AmongMetadata) =>
        /\ NoSuchFileLine \in Range(kept)
        /\ diagnostic = join(kept, " | ")

\* C18, amended: when the line "Error: No such file or directory" stands
\* among the last 10 lines of a text of metadata lines, the diagnostic
\* includes it
C18_LineInLastTenIncluded ==
    (Extracted /\ AmongMetadata
        /\ NoSuchFileLine \in Range(LastN(stderr_lines, 10))) =>
        /\ NoSuchFileLine \in Range(kept)
        /\ diagnostic = join(kept, " | ")

\* the line is the tenth from the end, nine metadata lines after it
C18_Witness ==
    /\ Extracted
    /\ AmongMetadata
    /\ Len(stderr_lines) = 10
    /\ stderr_lines[1] = NoSuchFileLine
    /\ \A k \in 2..10 : stderr_lines[k] # NoSuchFileLine
    /\ diagnostic = "Error: No such file or directory"

\* run has built its tasks from the files it found
TasksBuilt == run_pc = "pool"

\* C19: the output path of every task built from a found file is the output
\* directory joined with the stem of the input, "-short", "." and the
\* extension of the input
C19_OutputPathShape ==
    TasksBuilt =>
        \A i \in Units :
            /\ tasks[i].output.dir = OutputDir
            /\ display(tasks[i].output) =
                   "/out/" \o tasks[i].input.stem \o "-short" \o "."
                           \o tasks[i].input.ext

\* the tasks of /in/b.MP4 and /in/sub/a.mp4 have been built
C19_Witness ==
    /\ TasksBuilt
    /\ Len(tasks) = 2
    /\ tasks[1].input = PathB
    /\ display(tasks[1].output) = "/out/b-short.MP4"
    /\ display(tasks[2].input) = "/in/sub/a.mp4"
    /\ display(tasks[2].output) = "/out/a-short.mp4"

\* C20: the tasks built from the distinct files found under the input
\* directory have pairwise distinct output paths
C20_DistinctOutputs ==
    TasksBuilt =>
        \A i, j \in Units : i # j => tasks[i].output # tasks[j].output

\* C21: a task built by create_file_tasks has an output different from its
\* input; a task whose output is its input never has the executable spawned
\* and ends as a Failure for its input, by FileTask::validate when its input
\* and output directory are in order; so every spawn is for a task whose
\* output differs from its input
C21_InputIsNotOutput ==
    \A i \in Units :
        /\ tasks[i] \in BuiltTasks => tasks[i].input # tasks[i].output
        /\ spawn_calls[i] # <<>> => tasks[i].input # tasks[i].output
        /\ tasks[i].input = tasks[i].output =>
              /\ spawn_calls[i] = <<>>
              /\ child[i] = "none"
              /\ Len(obs[i]) <= 3
              /\ pc[i] = "send" =>
                    /\ local[i].kind = "Failure"
                    /\ local[i].input = tasks[i].input
                    /\ (obs[i][1] = "file" /\ obs[i][2] = "writable") =>
                          local[i].error =
                            "Task validation failed: Cannot access file: "
                               \o display(tasks[i].output)

\* the task whose output is its input, its file and output directory in
\* order, has been rejected and is about to publish its Failure
C21_Witness ==
    /\ tasks = <<FileTask(PathA, PathA)>>
    /\ pc[1] = "send"
    /\ obs[1][1] = "file" /\ obs[1][2] = "writable"
    /\ local[1].error = "Task validation failed: Cannot access file: /in/a.mp4"
    /\ spawn_calls[1] = <<>>

\* the arguments passed validate_and_normalize
Validated == run_pc \in {"ffmpeg", "logging", "version", "find", "pool"}

\* C22: the thread count validate_and_normalize produces, explicit or
\* defaulted, is between 1 and MAX_THREADS, and so is the size of the pool
\* built from it
C22_ThreadCountInRange ==
    /\ Validated => (1 <= threads /\ threads <= MAX_THREADS)
    /\ run_pc = "pool" =>
          (1 <= max_workers /\ max_workers <= MAX_THREADS)

\* C23: a pool made with zero workers, given a non-empty list, fails up front:
\* execute_tasks makes no channel and spawns no unit, and what it returns is
\* an error
C23_ZeroWorkersFailsUpFront ==
    (run_pc = "pool" /\ max_workers = 0 /\ tasks # <<>>) =>
        /\ pc_main \in {"start", "returned"}
        /\ \A i \in Units : pc[i] = "unspawned"
        /\ Returned => ~ret.ok

\* the units that have their result: about to publish it, or past that
HasResult == {i \in Units : pc[i] \in {"send", "release", "finish", "done"}}

\* C24: the executable is spawned at most once for a task; for a task whose
\* validations passed it has been spawned exactly once when the input was
\* found and the output directory made, and not at all otherwise; a task
\* rejected by a validation is never spawned; a unit that has its result
\* never spawns again nor goes back to an earlier step, and there is never
\* more than one result per task
C24_SpawnedAtMostOnce ==
    /\ [](\A i \in Units :
            /\ Len(spawn_calls[i]) <= 1
            /\ Len(obs[i]) = 3 /\ i \in HasResult => spawn_calls[i] = <<>>
            /\ Len(obs[i]) >= 6 =>
                  (Len(spawn_calls[i]) = 1 <=> (obs[i][4] = "ok" /\ obs[i][5] = "ok")))
    /\ [](Len(Published) + Cardinality(send_failed)
              <= Cardinality(HasResult \ {i \in Units : pc[i] = "send"}))
    /\ [][\A i \in HasResult :
            /\ spawn_calls'[i] = spawn_calls[i]
            /\ pc'[i] \in {"send", "release", "finish", "done"}]_vars

\* a task whose spawn failed has finished: one call of spawn, one Failure
C24_Witness ==
    /\ pc_main = "returned"
    /\ pc[1] = "done"
    /\ Len(obs[1]) = 6 /\ obs[1][6] # "ok"
    /\ Len(spawn_calls[1]) = 1
    /\ Len(ret.val.failed) = 1 /\ ret.val.failed[1].kind = "Failure"

\* the filter graph, as the specification of the program gives it
FilterGraph ==
    "[0:v]scale=2276:1280,boxblur=4[bg];[1:v]scale=720:-1[fg];"
        \o "[bg][fg]overlay=(W-w)/2:(H-h)/2[tmp];[tmp]crop=720:1280:(2276-720)/2:0[out]"

\* the fixed shape of the argument vector of a task
FixedShape(a, task) ==
    /\ Len(a) = 12
    /\ a[1] = "-i" /\ a[2] = display(task.input)
    /\ a[3] = "-i" /\ a[4] = display(task.input)
    /\ a[5] = "-filter_complex" /\ a[6] = FilterGraph
    /\ a[7] = "-map" /\ a[8] = "[out]"
    /\ a[9] = "-map" /\ a[10] = "0:a"
    /\ a[11] = "-y"
    /\ a[12] = display(task.output)

\* the executable name followed by the twelve arguments, a space between
Spelled(a) ==
    "ffmpeg " \o a[1] \o " " \o a[2] \o " " \o a[3] \o " " \o a[4] \o " "
        \o a[5] \o " " \o a[6] \o " " \o a[7] \o " " \o a[8] \o " "
        \o a[9] \o " " \o a[10] \o " " \o a[11] \o " " \o a[12]

\* C30: the arguments of every spawn have the fixed shape, with the input of
\* the task as both inputs, the overwrite flag, and the output of the task
\* last; the command string kept in the result of a process that was waited
\* for is the executable name followed by exactly the arguments it was
\* spawned with
C30_FixedArgumentShape ==
    \A i \in Units :
        /\ \A k \in 1..Len(spawn_calls[i]) : FixedShape(spawn_calls[i][k], tasks[i])
        /\ (pc[i] = "send" /\ local[i].kind = "Success") =>
              /\ Len(spawn_calls[i]) = 1
              /\ local[i].ffmpeg_result.command = Spelled(spawn_calls[i][1])

\* /in/a.mp4 has been converted; its command string is spelled out
C30_Witness ==
    /\ pc[1] = "send"
    /\ local[1].kind = "Success"
    /\ tasks[1].input = PathA
    /\ spawn_calls[1][1][2] = "/in/a.mp4"
    /\ spawn_calls[1][1][12] = "/out/a-short.mp4"
    /\ local[1].ffmpeg_result.command =
          "ffmpeg -i /in/a.mp4 -i /in/a.mp4 -filter_complex " \o FilterGraph
             \o " -map [out] -map 0:a -y /out/a-short.mp4"

\* the positions in rs of the results of one kind
PositionsOf(rs, kind) == {k \in 1..Len(rs) : rs[k].kind = kind}

\* the j-th smallest member of a set of positions
Nth(S, j) == CHOOSE k \in S : Cardinality({m \in S : m <= k}) = j

\* list is the results of rs of one kind, each once, in the order of rs
SameOrder(list, rs, kind) ==
    /\ Len(list) = Cardinality(PositionsOf(rs, kind))
    /\ \A j \in 1..Len(list) : list[j] = rs[Nth(PositionsOf(rs, kind), j)]

\* C29: what execute_tasks returns for the results it collected: successful
\* is the Success results and failed the Failure results, each once and in
\* the order they were collected; total_count is the number collected and
\* total_duration the duration passed
C29_ResultsArePartitioned ==
    (Returned /\ tasks # <<>>) =>
        /\ SameOrder(ret.val.successful, results, "Success")
        /\ SameOrder(ret.val.failed, results, "Failure")
        /\ total_count(ret.val) = Len(results)
        /\ ret.val.total_duration = "elapsed"

\* two successes were collected in the reverse of the order of their tasks,
\* and returned in the order they were collected
C29_Witness ==
    /\ Returned
    /\ Len(results) = 2
    /\ results[1].kind = "Success" /\ results[2].kind = "Success"
    /\ results[1].input = tasks[2].input
    /\ results[1] # results[2]
    /\ ret.val.successful = results

\* the units that made their call of tx.send
Sent == {i \in Units : pc[i] \in {"release", "finish", "done"}}

\* C25, as stated: when the publish of a unit has failed, every sibling that
\* comes to publish has its own result published, none fails in its turn
C25_SiblingsStillPublish ==
    \A i \in send_failed :
        /\ i \in Sent
        /\ \A j \in Sent \ {i} : j \notin send_failed

\* C25, amended: a unit whose publish failed goes on to release its permit
\* and to finish; no permit is lost; a unit leaves its publish step only by
\* its own call of send, to the release of its permit, the result being
\* queued when the receiver is there and the failure noted when it is gone;
\* and once a publish has failed, in a pool of at least one worker, every
\* unit runs its task, makes its call of send and finishes, and all the
\* permits come back
C25_PublishFailureIsOnlyLogged ==
    /\ [](\A i \in send_failed :
            /\ i \in Sent
            /\ pc[i] \in {"finish", "done"} => ~permit[i])
    /\ [](permits + Cardinality(Holders) = max_workers)
    /\ [][\A j \in Units : (pc[j] = "send" /\ pc'[j] # "send") =>
            /\ pc'[j] = "release"
            /\ IF rx_open
               THEN chan' = Append(chan, local[j]) /\ send_failed' = send_failed
               ELSE send_failed' = send_failed \cup {j} /\ chan' = chan]_vars
    /\ ((send_failed # {} /\ max_workers >= 1) ~>
            (/\ \A j \in Units :
                   pc[j] = "done" /\ Len(obs[j]) >= 3 /\ ~permit[j]
             /\ permits = max_workers))

\* of two units, one published before the caller went away and the other
\* failed to publish after; both have finished and the permits are back
C25_Witness ==
    /\ Len(tasks) = 2
    /\ pc_main = "cancelled"
    /\ Cardinality(send_failed) = 1
    /\ \A j \in Units : pc[j] = "done" /\ ~permit[j]
    /\ permits = max_workers

\* the answers to the calls of one method, in the order they were given
RepliesTo(call) == SelectSeq(replies, LAMBDA r : r.call = call)

\* the values increment_completed has returned so far
Returns ==
    [k \in 1..Len(RepliesTo("increment_completed")) |->
        RepliesTo("increment_completed")[k].value]

\* C26: whatever the order in which the threads make their calls, the k
\* calls of increment_completed made so far returned k different values,
\* which are exactly 1..k; the counter is k; and no step makes the counter
\* smaller
C26_IncrementIsAtomic ==
    /\ [](/\ \A a, b \in 1..Len(Returns) : a # b => Returns[a] # Returns[b]
          /\ {Returns[a] : a \in 1..Len(Returns)} = 1..Len(Returns)
          /\ monitor.completed_tasks = Len(Returns))
    /\ [][monitor'.completed_tasks >= monitor.completed_tasks]_vars

\* three calls have been made, with readers in between
C26_Witness ==
    /\ Len(Returns) = 3
    /\ monitor.completed_tasks = 3
    /\ Asked >= 1
    /\ replies[Len(replies)].call = "increment_completed"
    /\ replies[Len(replies)].value = 3

\* C27: after any calls of increment_completed on a monitor of total_tasks
\* tasks the counter is at most total_tasks, and every answer of
\* progress_percentage is between 0 and 100: it is completed * 100 /
\* total_tasks for a monitor of at least one task, and 100 when the counter
\* it read was total_tasks
C27_CounterAndPercentageBounded ==
    /\ run_pc = "progress" => monitor.completed_tasks <= monitor.total_tasks
    /\ \A k \in 1..Len(RepliesTo("progress_percentage")) :
          LET r == RepliesTo("progress_percentage")[k]
          IN  /\ r.value.den > 0
              /\ 0 <= r.value.num
              /\ r.value.num <= 100 * r.value.den
              /\ monitor.total_tasks > 0 =>
                    r.value.num * monitor.total_tasks = r.completed * 100 * r.value.den
              /\ r.completed = monitor.total_tasks => r.value.num = 100 * r.value.den

\* C28: an answer of estimated_time_remaining is None exactly when the
\* counter it read was 0; otherwise it is the whole number of nanoseconds of
\* elapsed / completed, times the tasks that remain, and zero when the
\* counter had reached or passed total_tasks
C28_EstimatedTimeRemaining ==
    \A k \in 1..Len(RepliesTo("estimated_time_remaining")) :
        LET r == RepliesTo("estimated_time_remaining")[k]
            total == monitor.total_tasks
        IN  /\ r.value.some <=> r.completed # 0
            /\ (r.completed # 0 /\ r.completed >= total) => r.value.val = 0
            /\ (r.completed # 0 /\ r.completed < total) =>
                  \E avg \in 0..r.elapsed :
                      /\ avg * r.completed <= r.elapsed
                      /\ r.elapsed < (avg + 1) * r.completed
                      /\ r.value.val = avg * (total - r.completed)

\* asked after 3 ns with two of three tasks completed: 1 ns, the average
\* of 1.5 ns cut to a whole nanosecond
C28_Witness ==
    /\ monitor.total_tasks = 3
    /\ Len(RepliesTo("estimated_time_remaining")) = 1
    /\ RepliesTo("estimated_time_remaining")[1].completed = 2
    /\ RepliesTo("estimated_time_remaining")[1].elapsed = 3
    /\ RepliesTo("estimated_time_remaining")[1].value = Some(1)

\* the entries of the tree: those of the input directory and those of its
\* subdirectories
TreeEntries ==
    {listing[k] : k \in 1..Len(listing)}
        \cup UNION {{listing[k].children[n] : n \in 1..Len(listing[k].children)} :
                       k \in 1..Len(listing)}

\* the regular files of the tree whose extension is mp4 in any case
Mp4Files ==
    {entry.path : entry \in
        {x \in TreeEntries : x.kind = "file" /\ x.path.ext \in {"mp4", "MP4", "Mp4", "mP4"}}}

\* C31: what find_video_files returns for a tree it could read is in
\* strictly ascending order of paths, so sorted and without duplicates, and
\* holds exactly the regular files of the tree, subdirectories included,
\* whose extension is mp4 in any case; nothing with another extension or
\* none, and nothing that is not a regular file
C31_FindsExactlyTheVideoFiles ==
    (run_pc = "found_files" /\ find_result.ok) =>
        /\ \A a, b \in 1..Len(find_result.val) :
              a < b => path_less(find_result.val[a], find_result.val[b])
        /\ {find_result.val[a] : a \in 1..Len(find_result.val)} = Mp4Files
        /\ \A a \in 1..Len(find_result.val) :
              /\ find_result.val[a].ext \notin {"txt", ""}
              /\ find_result.val[a] # PathD
                    \/ DirEntry(PathD, "file", <<>>) \in TreeEntries

\* read_dir gave the subdirectory first, then b.MP4, then a.mp4; beside
\* /in/sub/a.mp4 the subdirectory holds a text file; the three videos come
\* back sorted
C31_Witness ==
    /\ run_pc = "found_files"
    /\ Len(listing) = 3
    /\ listing[1].kind = "dir" /\ Len(listing[1].children) = 2
    /\ listing[2].path = PathB
    /\ listing[3].path = PathA
    /\ find_result = FoundOk(<<PathA, PathB, PathE>>)

Started == {i \in Units : pc[i] \in {"validate", "prepare", "wait", "send"}}

\* the steps of a unit, each with the steps that may follow it
StepOrder ==
    {<<"unspawned", "acquire">>, <<"acquire", "validate">>,
     <<"validate", "prepare">>, <<"validate", "send">>,
     <<"prepare", "wait">>, <<"prepare", "send">>,
     <<"wait", "send">>, <<"send", "release">>,
     <<"release", "finish">>, <<"finish", "done">>}

\* C33: a unit takes its steps in the order acquire, validate and execute,
\* publish, release; it gets its permit only on leaving the acquire step and
\* loses it only at the release step, after its publish; a unit that has
\* looked at its task, spawned the executable or has a result to publish
\* holds a permit; so at most max_workers units have started and not yet
\* published
C33_PermitHeldFromStartToPublish ==
    /\ [](\A i \in Units :
            /\ i \in Started => permit[i]
            /\ pc[i] \in {"unspawned", "acquire"} =>
                  /\ ~permit[i]
                  /\ obs[i] = <<>> /\ spawn_calls[i] = <<>> /\ child[i] = "none"
                  /\ local[i] = NoResult)
    /\ [](Cardinality(Started) <= max_workers)
    /\ [][\A i \in Units :
            /\ pc'[i] # pc[i] => <<pc[i], pc'[i]>> \in StepOrder
            /\ (~permit[i] /\ permit'[i]) => (pc[i] = "acquire" /\ pc'[i] = "validate")
            /\ (permit[i] /\ ~permit'[i]) => (pc[i] = "release" /\ pc'[i] = "finish")]_vars

\* every permit of a pool of one worker is in use by a unit about to
\* publish, while the other unit waits for a permit
C33_Witness ==
    /\ max_workers = 1
    /\ Len(tasks) = 2
    /\ \E i \in Units : pc[i] = "send" /\ permit[i] /\ Len(obs[i]) = 7
    /\ \E i \in Units : pc[i] = "acquire"
    /\ permits = 0

\* run has made the summary of the results execute_tasks returned
Summarised == run_pc = "exited" /\ pc_main = "returned" /\ ret.ok

\* C34: the summary made of the results execute_tasks returned has their
\* counts: successful is success_count, failed is failure_count, total_files
\* their sum, which is total_count, and total_duration the duration of the
\* results; its lists name the inputs of the results in their order; and
\* the exit code taken from it is the classification of the counts of the
\* results
C34_SummaryPreservesCounts ==
    Summarised =>
        /\ summary.successful = success_count(ret.val)
        /\ summary.failed = failure_count(ret.val)
        /\ summary.total_files = Len(ret.val.successful) + Len(ret.val.failed)
        /\ summary.total_files = total_count(ret.val)
        /\ summary.total_duration = ret.val.total_duration
        /\ Len(summary.successful_files) = Len(ret.val.successful)
        /\ Len(summary.failed_files) = Len(ret.val.failed)
        /\ \A k \in 1..Len(ret.val.successful) :
              summary.successful_files[k][1] = ret.val.successful[k].input
        /\ \A k \in 1..Len(ret.val.failed) :
              /\ summary.failed_files[k][1] = ret.val.failed[k].input
              /\ summary.failed_files[k][2] = ret.val.failed[k].error
        /\ exit = Classification(Len(ret.val.successful), Len(ret.val.failed))

\* a run of two tasks, one converted and one not: a summary of two files
C34_Witness ==
    /\ Summarised
    /\ summary.total_files = 2
    /\ summary.successful = 1 /\ summary.failed = 1
    /\ summary.total_duration = "elapsed"
    /\ summary.successful_files[1][1] = ret.val.successful[1].input
    /\ exit = PARTIAL_SUCCESS

\* the collecting loop of execute_tasks has ended
LoopEnded == pc_main \in {"join", "returned"}

\* C35: in a call of execute_tasks that runs to its end the receiver is
\* there as long as a sender is: the sender of execute_tasks itself is gone
\* when the collecting starts, the loop has not ended while a clone is
\* alive, and a unit about to send finds the receiver; so no send fails,
\* and when the loop has ended every result sent has been received, one
\* for each unit that sent
C35_ReceiverOutlivesSenders ==
    /\ send_failed = {}
    /\ pc_main \in {"collect", "join", "returned"} => 0 \notin tx
    /\ tx # {} => ~LoopEnded
    /\ \A i \in Units :
          pc[i] \in {"acquire", "validate", "prepare", "wait", "send", "release", "finish"}
              => (i \in tx /\ rx_open /\ ~LoopEnded)
    /\ Len(Published) = Cardinality(Sent)
    /\ LoopEnded =>
          /\ chan = <<>>
          /\ Len(results) = Cardinality(Sent)
          /\ Sent = Units

\* the loop has just ended with two results received, the second unit's
\* first, and nothing left in the channel
C35_Witness ==
    /\ pc_main = "join"
    /\ cursor = 1
    /\ Len(results) = 2
    /\ results[1].input = tasks[2].input
    /\ tasks[1].input # tasks[2].input
    /\ chan = <<>>
    /\ send_failed = {}

\* list grew by one element at its end
Pushed(before, after) ==
    /\ Len(after) = Len(before) + 1
    /\ SubSeq(after, 1, Len(before)) = before

\* C36: in every state reached by add_success, add_failure and
\* set_total_duration the counters of the summary are the lengths of its
\* lists; a step that counts a success pushes one success and leaves the
\* failures, total_files and total_duration alone, a step that counts a
\* failure does the same on its side, and any other step leaves counters
\* and lists alone
C36_CountersMatchLists ==
    /\ [](/\ summary.successful = Len(summary.successful_files)
          /\ summary.failed = Len(summary.failed_files))
    /\ [][\/ /\ summary'.successful = summary.successful + 1
              /\ Pushed(summary.successful_files, summary'.successful_files)
              /\ summary'.failed = summary.failed
              /\ summary'.failed_files = summary.failed_files
              /\ summary'.total_files = summary.total_files
              /\ summary'.total_duration = summary.total_duration
           \/ /\ summary'.failed = summary.failed + 1
              /\ Pushed(summary.failed_files, summary'.failed_files)
              /\ summary'.successful = summary.successful
              /\ summary'.successful_files = summary.successful_files
              /\ summary'.total_files = summary.total_files
              /\ summary'.total_duration = summary.total_duration
           \/ /\ summary'.successful = summary.successful
              /\ summary'.successful_files = summary.successful_files
              /\ summary'.failed = summary.failed
              /\ summary'.failed_files = summary.failed_files]_vars

\* two successes were totalled, then a failure was added: three files
\* listed, total_files still 2
C36_Witness ==
    /\ run_pc = "summary"
    /\ summary.total_files = 2
    /\ summary.successful = 2 /\ Len(summary.successful_files) = 2
    /\ summary.failed = 1 /\ Len(summary.failed_files) = 1
    /\ summary.total_duration = "elapsed"

\* the way the wait of unit i for its process ended
WaitEnded(i, tag) == Len(obs[i]) = 7 /\ obs[i][7].tag = tag

\* C37: a process killed by a signal, which has no exit code, gives its task
\* a Failure with the ExecutionFailed error of exit code -1; a wait that
\* fails with an I/O error gives a Failure with the CannotSpawnProcess
\* error; neither is ever published or returned as a Success
C37_NoCodeOrWaitErrorIsFailure ==
    \A i \in Units :
        /\ (pc[i] = "send" /\ WaitEnded(i, "Signaled")) =>
              /\ local[i].kind = "Failure"
              /\ local[i].input = tasks[i].input
              /\ local[i].error =
                    "FFmpeg error: FFmpeg execution failed with exit code -1"
        /\ (pc[i] = "send" /\ WaitEnded(i, "IoError")) =>
              /\ local[i].kind = "Failure"
              /\ local[i].input = tasks[i].input
              /\ local[i].error = "FFmpeg error: Cannot spawn FFmpeg process"
        /\ (WaitEnded(i, "Signaled") \/ WaitEnded(i, "IoError")) =>
              /\ \A k \in 1..Len(Published) : Published[k].kind = "Failure"
              /\ Returned => (ret.val.successful = <<>> /\ Len(ret.val.failed) = 1)

\* the process of /in/a.mp4 was killed by a signal and the run has returned
\* its Failure
C37_Witness ==
    /\ Returned
    /\ tasks[1].input = PathA
    /\ WaitEnded(1, "Signaled")
    /\ Len(ret.val.failed) = 1
    /\ ret.val.failed[1].error =
          "FFmpeg error: FFmpeg execution failed with exit code -1"

=============================================================================
